---------------------------- MODULE Spec2Model ----------------------------
(***************************************************************************)
(* A model of the allowlist HTML sanitizer of src/src/sanitize.node.ts.    *)
(*                                                                         *)
(* Strings are sequences of characters (one-character strings), so that    *)
(* split, trim, toLowerCase and startsWith are computed and not assumed.   *)
(* An HTML text is a sequence of tokens (start tag with attributes, end    *)
(* tag, text); the parser builds a DOM arena from it and outerHTML writes  *)
(* the tokens back.  CSS text is the node list postcss.parse returns.      *)
(***************************************************************************)
EXTENDS Integers, Sequences, FiniteSets, TLC

VARIABLES
    pc,               \* where the caller / sanitizeWithPolicy stands
    rules,            \* the rule list given to the last compileRules
    config,           \* the caller's config object (the caller may mutate it)
    config0,          \* the config as it was when compileRules was called
    policy,           \* the CompiledPolicy
    flavour,          \* "oneshot" (sanitize) or "twophase" (sanitizeWithPolicy)
    html,             \* argument of sanitizeWithPolicy
    current,          \* local `current` of sanitizeWithPolicy
    next,             \* local `next` of sanitizeWithPolicy (output of the last pass)
    pass,             \* local `pass` of sanitizeWithPolicy
    result,           \* the returned string
    doc,              \* the DOM arena of the running pass
    elements,         \* the snapshot [root, ...querySelectorAll("*")]
    idx,              \* position of the for-loop over `elements`
    usedTagCounts,    \* PassState: per-tag used counter
    usedTotalTags,    \* PassState: running total
    countsSaturated,  \* PassState: saturation flag
    purified,         \* history: the text in `current` came out of applyDomPurify
    passesRun,        \* history: calls of sanitizeOnceWithPolicy in this call
    memo,             \* history: one earlier completed call
    between,          \* history: a call on another html returned after the one in memo
    globals,          \* globalThis as the host has set it: window and DOMParser
    fallbackWindow,   \* the module's `fallbackWindow`
    cachedPurify,     \* the module's `cachedPurify`
    created           \* history: how many windows and purifiers were created, and
                      \* how often the host changed globalThis

callVars == <<html, current, next, pass, result, purified, passesRun>>
passVars == <<doc, elements, idx, usedTagCounts, usedTotalTags, countsSaturated>>
polVars  == <<rules, config, config0, policy, flavour>>
histVars == <<memo, between>>
envVars  == <<globals, fallbackWindow, cachedPurify, created>>
vars     == <<pc, polVars, callVars, passVars, histVars, envVars>>

---------------------------------------------------------------------------
(* Characters and strings                                                  *)

BOM == "<U+FEFF>"   \* ZERO WIDTH NO-BREAK SPACE, one character
DEL == "<U+007F>"   \* DELETE, one character

\* /\s/ of JavaScript, which is also what String.prototype.trim removes
JsSpace == {" ", "\t", "\n", BOM}

\* /[\u0000-\u001F\u007F]/
CTRL == "<U+0001>"  \* a control character other than tab and line feed
AsciiControl == {"\t", "\n", CTRL, DEL}

UpperToLower ==
    [c \in {"A", "B", "C", "D", "E", "F", "H", "I", "J", "L", "M", "O", "P",
            "R", "S", "T", "U", "V", "X", "Y"} |->
        CASE c = "A" -> "a" [] c = "B" -> "b" [] c = "C" -> "c" [] c = "D" -> "d"
          [] c = "E" -> "e" [] c = "F" -> "f" [] c = "H" -> "h" [] c = "I" -> "i"
          [] c = "J" -> "j" [] c = "L" -> "l" [] c = "M" -> "m" [] c = "O" -> "o"
          [] c = "P" -> "p" [] c = "R" -> "r" [] c = "S" -> "s" [] c = "T" -> "t"
          [] c = "U" -> "u" [] c = "V" -> "v" [] c = "X" -> "x" [] c = "Y" -> "y"]

LowerChar(c) == IF c \in DOMAIN UpperToLower THEN UpperToLower[c] ELSE c

\* String.prototype.toLowerCase
RECURSIVE ToLowerCase(_)
ToLowerCase(s) ==
    IF s = <<>> THEN <<>> ELSE <<LowerChar(Head(s))>> \o ToLowerCase(Tail(s))

\* String.prototype.startsWith
StartsWith(s, p) == Len(p) <= Len(s) /\ SubSeq(s, 1, Len(p)) = p

RECURSIVE TrimStart(_)
TrimStart(s) ==
    IF s # <<>> /\ Head(s) \in JsSpace THEN TrimStart(Tail(s)) ELSE s

RECURSIVE TrimEnd(_)
TrimEnd(s) ==
    IF s # <<>> /\ s[Len(s)] \in JsSpace
    THEN TrimEnd(SubSeq(s, 1, Len(s) - 1)) ELSE s

\* String.prototype.trim
Trim(s) == TrimEnd(TrimStart(s))

\* String.prototype.split(sep) for a one-character separator: the segments
\* between the separators, empty ones included ("" splits into [""]).
RECURSIVE SplitAcc(_, _, _, _)
SplitAcc(s, sep, i, seg) ==
    IF i > Len(s) THEN <<seg>>
    ELSE IF s[i] = sep THEN <<seg>> \o SplitAcc(s, sep, i + 1, <<>>)
    ELSE SplitAcc(s, sep, i + 1, Append(seg, s[i]))

Split(s, sep) == SplitAcc(s, sep, 1, <<>>)

\* Map.get(k) ?? d, Map.set(k, v), Set.add on a Map<string, Set<string>>
EmptyMap == [k \in {} |-> 0]
MapGet(m, k, d) == IF k \in DOMAIN m THEN m[k] ELSE d
MapSet(m, k, v) == [x \in (DOMAIN m) \cup {k} |-> IF x = k THEN v ELSE m[x]]
MapAdd(m, k, v) == MapSet(m, k, MapGet(m, k, {}) \cup {v})

\* An optional field: <<>> is undefined, <<v>> is the value v.  (a ?? d)
Undefined == <<>>
Some(v) == <<v>>
Coalesce(opt, d) == IF opt = <<>> THEN d ELSE opt[1]

---------------------------------------------------------------------------
(* Names used by the program and by the inputs                             *)

S_style  == <<"s", "t", "y", "l", "e">>
S_script == <<"s", "c", "r", "i", "p", "t">>
S_html   == <<"h", "t", "m", "l">>
S_head   == <<"h", "e", "a", "d">>
S_body   == <<"b", "o", "d", "y">>
S_a      == <<"a">>
S_p      == <<"p">>
S_div    == <<"d", "i", "v">>
S_img    == <<"i", "m", "g">>
S_href   == <<"h", "r", "e", "f">>
S_src    == <<"s", "r", "c">>
S_srcset == <<"s", "r", "c", "s", "e", "t">>
S_title  == <<"t", "i", "t", "l", "e">>
S_target == <<"t", "a", "r", "g", "e", "t">>
S_rel    == <<"r", "e", "l">>
S_alt    == <<"a", "l", "t">>
S_width  == <<"w", "i", "d", "t", "h">>
S_height == <<"h", "e", "i", "g", "h", "t">>
S_lang   == <<"l", "a", "n", "g">>
S_class  == <<"c", "l", "a", "s", "s">>
S_id     == <<"i", "d">>
S_on      == <<"o", "n">>
S_onclick == <<"o", "n", "c", "l", "i", "c", "k">>
S_star   == <<"*">>
S_url    == <<"u", "r", "l">>
S_javascript == <<"j", "a", "v", "a", "s", "c", "r", "i", "p", "t", ":">>
S_data   == <<"d", "a", "t", "a", ":">>

\* src/src/sanitize.node.ts:20-24
COMMON_ATTRS ==
    [t \in {S_a, S_img, S_html} |->
        CASE t = S_a    -> {S_href, S_title, S_target, S_rel}
          [] t = S_img  -> {S_src, S_alt, S_title, S_width, S_height}
          [] t = S_html -> {S_lang}]

COMMON_GLOBAL_ATTRS == {S_class, S_id}

STRUCTURAL_TAGS == {S_html, S_head, S_body}

URL_ATTRS ==
    {S_href, S_src, <<"x", "l", "i", "n", "k", ":", "h", "r", "e", "f">>,
     <<"a", "c", "t", "i", "o", "n">>,
     <<"f", "o", "r", "m", "a", "c", "t", "i", "o", "n">>,
     <<"p", "o", "s", "t", "e", "r">>, S_srcset, <<"d", "a", "t", "a">>,
     <<"c", "o", "d", "e", "b", "a", "s", "e">>,
     <<"a", "r", "c", "h", "i", "v", "e">>, <<"c", "i", "t", "e">>,
     <<"l", "o", "n", "g", "d", "e", "s", "c">>,
     <<"u", "s", "e", "m", "a", "p">>,
     <<"b", "a", "c", "k", "g", "r", "o", "u", "n", "d">>,
     <<"p", "r", "o", "f", "i", "l", "e">>, <<"i", "c", "o", "n">>,
     <<"m", "a", "n", "i", "f", "e", "s", "t">>}

DefaultMaxPasses == 10

---------------------------------------------------------------------------
(* compileRules                                                            *)

EmptyPolicyMaps ==
    [tagCounts |-> EmptyMap, attrAllowlist |-> EmptyMap, styleAllowlist |-> EmptyMap]

\* .map((part) => part.trim())
RECURSIVE TrimAll(_)
TrimAll(ps) ==
    IF ps = <<>> THEN <<>> ELSE <<Trim(Head(ps))>> \o TrimAll(Tail(ps))

\* a defect: bare-tag rules with set semantics (a second "a" adds nothing)
SetTagOnce(tagCounts, tag) == MapSet(tagCounts, tag, 1)

\* tagCounts.set(tag, (tagCounts.get(tag) ?? 0) + 1)
IncrementTag(tagCounts, tag) == MapSet(tagCounts, tag, MapGet(tagCounts, tag, 0) + 1)

\* the body of the for-loop of compileRules, for one rule
CompileRule(acc, rule) ==
    LET raw   == Split(rule, "|")
        parts == TrimAll(raw)
    IN  IF Len(parts) = 1 THEN
            LET tag == ToLowerCase(parts[1]) IN
            IF tag = <<>> THEN acc
            ELSE [acc EXCEPT !.tagCounts = IncrementTag(@, tag)]
        ELSE IF Len(parts) = 2 THEN
            LET tag  == ToLowerCase(parts[1])
                attr == ToLowerCase(parts[2])
            IN  IF tag = <<>> \/ attr = <<>> THEN acc
                ELSE [acc EXCEPT !.attrAllowlist = MapAdd(@, tag, attr)]
        ELSE IF Len(parts) = 3 /\ ToLowerCase(parts[1]) = S_style THEN
            LET selector == parts[2]
                property == ToLowerCase(parts[3])
            IN  IF selector = <<>> \/ property = <<>> THEN acc
                ELSE [acc EXCEPT !.styleAllowlist = MapAdd(@, selector, property)]
        ELSE acc

RECURSIVE CompileLoop(_, _, _)
CompileLoop(rs, i, acc) ==
    IF i > Len(rs) THEN acc
    ELSE CompileLoop(rs, i + 1, CompileRule(acc, rs[i]))

compileRules(rs, cfg) ==
    LET m == CompileLoop(rs, 1, EmptyPolicyMaps)
    IN  [tagCounts      |-> m.tagCounts,
         attrAllowlist  |-> m.attrAllowlist,
         styleAllowlist |-> m.styleAllowlist,
         config         |-> cfg]          \* { ...config }: a copy

---------------------------------------------------------------------------
(* HTML text, the DOM and the parser/serializer                            *)

\* A string value that may hold CSS: `s` are its characters when it is plain
\* text, `css` the nodes postcss.parse returns for it when it is CSS.
Str(s)  == [s |-> s, css |-> <<>>]
Css(ns) == [s |-> <<>>, css |-> ns]
EmptyStr == Str(<<>>)
StrLen(v) == Len(v.s) + Len(v.css)
StrConcat(a, b) == [s |-> a.s \o b.s, css |-> a.css \o b.css]

S_text == <<"#", "t", "e", "x", "t">>

Attr(name, value) == [name |-> name, value |-> value]

\* tokens of an HTML text
OpenTok(tag, attrs) == [k |-> "open", tag |-> tag, attrs |-> attrs, data |-> EmptyStr]
CloseTok(tag)       == [k |-> "close", tag |-> tag, attrs |-> <<>>, data |-> EmptyStr]
TextTok(data)       == [k |-> "text", tag |-> S_text, attrs |-> <<>>, data |-> data]

\* nodes of the DOM arena: parent = 0 is "no parent"
ElemNode(tag, attrs, parent) ==
    [tag |-> tag, attrs |-> attrs, parent |-> parent, kids |-> <<>>, data |-> EmptyStr]
TextNode(data, parent) ==
    [tag |-> S_text, attrs |-> <<>>, parent |-> parent, kids |-> <<>>, data |-> data]

IsElement(dom, n) == dom[n].tag # S_text

HtmlId == 1
HeadId == 2
BodyId == 3

\* the document an empty text parses to: <html><head></head><body></body></html>
EmptyDocument ==
    << [ElemNode(S_html, <<>>, 0) EXCEPT !.kids = <<HeadId, BodyId>>],
       ElemNode(S_head, <<>>, HtmlId),
       ElemNode(S_body, <<>>, HtmlId) >>

\* Node.appendChild of a new node
AppendNew(dom, parent, node) ==
    Append([dom EXCEPT ![parent].kids = Append(@, Len(dom) + 1)], node)

\* attribute names are lower-cased by the tokenizer; of two attributes with
\* the same name the first one wins
RECURSIVE TokenAttrs(_, _)
TokenAttrs(attrs, acc) ==
    IF attrs = <<>> THEN acc
    ELSE LET a == Attr(ToLowerCase(Head(attrs).name), Head(attrs).value)
         IN  TokenAttrs(Tail(attrs),
                 IF \E j \in 1..Len(acc) : acc[j].name = a.name THEN acc
                 ELSE Append(acc, a))

\* a start tag of html or body inside the body adds the attributes that the
\* element does not have yet
MergeAttrs(dom, n, attrs) ==
    [dom EXCEPT ![n].attrs = TokenAttrs(@ \o attrs, <<>>)]

\* the tree builder: `open` is the stack of open elements above the body
RECURSIVE TreeBuild(_, _, _, _)
TreeBuild(toks, i, dom, open) ==
    IF i > Len(toks) THEN dom
    ELSE
      LET t   == toks[i]
          tag == ToLowerCase(t.tag)
          cur == IF open = <<>> THEN BodyId ELSE open[Len(open)]
      IN  IF t.k = "text" THEN
              TreeBuild(toks, i + 1, AppendNew(dom, cur, TextNode(t.data, cur)), open)
          ELSE IF t.k = "open" THEN
              IF tag = S_html THEN
                  TreeBuild(toks, i + 1, MergeAttrs(dom, HtmlId, t.attrs), open)
              ELSE IF tag = S_body THEN
                  TreeBuild(toks, i + 1, MergeAttrs(dom, BodyId, t.attrs), open)
              ELSE IF tag = S_head THEN
                  TreeBuild(toks, i + 1, dom, open)
              ELSE
                  TreeBuild(toks, i + 1,
                      AppendNew(dom, cur, ElemNode(tag, TokenAttrs(t.attrs, <<>>), cur)),
                      Append(open, Len(dom) + 1))
          ELSE \* an end tag closes the nearest open element of that name
              LET js == {j \in 1..Len(open) : dom[open[j]].tag = tag}
              IN  IF js = {} THEN TreeBuild(toks, i + 1, dom, open)
                  ELSE LET j == CHOOSE x \in js : \A y \in js : y <= x
                       IN  TreeBuild(toks, i + 1, dom, SubSeq(open, 1, j - 1))

\* DOMParser.parseFromString(html, "text/html")
parseFromString(text) == TreeBuild(text, 1, EmptyDocument, <<>>)

\* Element.outerHTML
RECURSIVE OuterHTML(_, _)
RECURSIVE InnerHTML(_, _, _)
OuterHTML(dom, n) ==
    IF ~IsElement(dom, n) THEN <<TextTok(dom[n].data)>>
    ELSE <<OpenTok(dom[n].tag, dom[n].attrs)>>
            \o InnerHTML(dom, dom[n].kids, 1)
            \o <<CloseTok(dom[n].tag)>>
InnerHTML(dom, kids, i) ==
    IF i > Len(kids) THEN <<>>
    ELSE OuterHTML(dom, kids[i]) \o InnerHTML(dom, kids, i + 1)

\* a defect: every node counts as connected, so the walk skips nothing
isConnectedAlways(dom, n) == TRUE

\* Node.isConnected: the node is the document element or hangs under it
RECURSIVE isConnected(_, _)
isConnected(dom, n) ==
    IF n = HtmlId THEN TRUE
    ELSE IF dom[n].parent = 0 THEN FALSE
    ELSE isConnected(dom, dom[n].parent)

\* the elements under n in document order (querySelectorAll("*"))
RECURSIVE Descendants(_, _)
RECURSIVE DescendantsOf(_, _, _)

RECURSIVE Reverse(_)
Reverse(s) == IF s = <<>> THEN <<>> ELSE Reverse(Tail(s)) \o <<Head(s)>>

\* a defect: the elements under n are listed last to first
DescendantsBackwards(dom, n) == Reverse(DescendantsOf(dom, dom[n].kids, 1))

Descendants(dom, n) == DescendantsOf(dom, dom[n].kids, 1)
DescendantsOf(dom, kids, i) ==
    IF i > Len(kids) THEN <<>>
    ELSE (IF IsElement(dom, kids[i]) THEN <<kids[i]>> ELSE <<>>)
            \o Descendants(dom, kids[i])
            \o DescendantsOf(dom, kids, i + 1)

\* Node.textContent
RECURSIVE textContent(_, _)
RECURSIVE TextOfKids(_, _, _)
textContent(dom, n) ==
    IF ~IsElement(dom, n) THEN dom[n].data ELSE TextOfKids(dom, dom[n].kids, 1)
TextOfKids(dom, kids, i) ==
    IF i > Len(kids) THEN EmptyStr
    ELSE StrConcat(textContent(dom, kids[i]), TextOfKids(dom, kids, i + 1))

RemoveFromSeq(s, x) == SelectSeq(s, LAMBDA y : y # x)

\* Element.remove(): the subtree leaves the document in one piece
RemoveElement(dom, n) ==
    LET p == dom[n].parent
    IN  IF p = 0 THEN dom
        ELSE [dom EXCEPT ![p].kids = RemoveFromSeq(@, n), ![n].parent = 0]

\* s with the element x replaced by the sequence r
RECURSIVE Splice(_, _, _)
Splice(s, x, r) ==
    IF s = <<>> THEN <<>>
    ELSE IF Head(s) = x THEN r \o Tail(s)
    ELSE <<Head(s)>> \o Splice(Tail(s), x, r)

\* the arena after n's children moved up to n's parent p
RECURSIVE UnwrapNodes(_, _, _, _)
UnwrapNodes(dom, m, n, p) ==
    IF m > Len(dom) THEN <<>>
    ELSE << IF m = p THEN [dom[m] EXCEPT !.kids = Splice(@, n, dom[n].kids)]
            ELSE IF m = n THEN [dom[m] EXCEPT !.kids = <<>>, !.parent = 0]
            ELSE IF dom[m].parent = n THEN [dom[m] EXCEPT !.parent = p]
            ELSE dom[m] >> \o UnwrapNodes(dom, m + 1, n, p)

\* a defect: the element goes and takes its children along
unwrapDroppingChildren(dom, n) == RemoveElement(dom, n)

unwrapElement(dom, n) ==
    LET p == dom[n].parent
    IN  IF p = 0 THEN RemoveElement(dom, n)
        ELSE UnwrapNodes(dom, 1, n, p)

\* element.textContent = text
RECURSIVE ClearChildren(_, _, _)
ClearChildren(dom, m, n) ==
    IF m > Len(dom) THEN <<>>
    ELSE << IF m = n THEN [dom[m] EXCEPT !.kids = <<>>]
            ELSE IF dom[m].parent = n THEN [dom[m] EXCEPT !.parent = 0]
            ELSE dom[m] >> \o ClearChildren(dom, m + 1, n)

SetTextContent(dom, n, text) ==
    LET cleared == ClearChildren(dom, 1, n)
    IN  IF StrLen(text) = 0 THEN cleared
        ELSE AppendNew(cleared, n, TextNode(text, n))

---------------------------------------------------------------------------
(* URL danger check                                                        *)

HexDigit == {"0", "1", "2", "3", "4", "5", "6", "7", "8", "9",
             "a", "b", "c", "d", "e", "f", "A", "B", "C", "D", "E", "F"}

DigitValue(c) ==
    CASE c = "0" -> 0 [] c = "1" -> 1 [] c = "2" -> 2 [] c = "3" -> 3 [] c = "4" -> 4
      [] c = "5" -> 5 [] c = "6" -> 6 [] c = "7" -> 7 [] c = "8" -> 8 [] c = "9" -> 9
      [] c \in {"a", "A"} -> 10 [] c \in {"b", "B"} -> 11 [] c \in {"c", "C"} -> 12
      [] c \in {"d", "D"} -> 13 [] c \in {"e", "E"} -> 14 [] c \in {"f", "F"} -> 15

NaN == -1

\* parseInt(s, radix) of a string of hex digits: the longest prefix of digits
\* of that radix, NaN when it is empty
RECURSIVE ParseIntAcc(_, _, _, _)
ParseIntAcc(s, radix, i, acc) ==
    IF i > Len(s) \/ DigitValue(s[i]) >= radix THEN acc
    ELSE ParseIntAcc(s, radix, i + 1,
                     (IF acc = NaN THEN 0 ELSE acc) * radix + DigitValue(s[i]))

parseInt(s, radix) == ParseIntAcc(s, radix, 1, NaN)

LowerLetters == <<"a", "b", "c", "d", "e", "f", "g", "h", "i", "j", "k", "l", "m",
                  "n", "o", "p", "q", "r", "s", "t", "u", "v", "w", "x", "y", "z">>

\* String.fromCodePoint for the code points whose characters the model
\* writes; any other code point is the character "<other>"
fromCodePoint(cp) ==
    IF cp >= 97 /\ cp <= 122 THEN LowerLetters[cp - 96]
    ELSE IF cp = 9 THEN "\t"
    ELSE IF cp <= 31 /\ cp # 10 THEN CTRL
    ELSE IF cp = 10 THEN "\n"
    ELSE IF cp = 32 THEN " "
    ELSE IF cp = 58 THEN ":"
    ELSE IF cp = 127 THEN DEL
    ELSE IF cp = 65279 THEN BOM
    ELSE "<other>"

RECURSIVE HexRunEnd(_, _)
HexRunEnd(s, i) ==
    IF i <= Len(s) /\ s[i] \in HexDigit THEN HexRunEnd(s, i + 1) ELSE i

\* value.replace(/&#(x?[0-9a-fA-F]+);?/g, ...)
RECURSIVE DecodeFrom(_, _)
DecodeFrom(s, i) ==
    IF i > Len(s) THEN <<>>
    ELSE IF s[i] = "&" /\ i + 1 <= Len(s) /\ s[i + 1] = "#" THEN
        LET hasX   == i + 2 <= Len(s) /\ s[i + 2] = "x"
            from   == IF hasX THEN i + 3 ELSE i + 2
            to     == HexRunEnd(s, from)
            stop   == IF to <= Len(s) /\ s[to] = ";" THEN to + 1 ELSE to
            digits == SubSeq(s, from, to - 1)
            codePoint == IF hasX THEN parseInt(digits, 16) ELSE parseInt(digits, 10)
        IN  IF to = from THEN <<s[i]>> \o DecodeFrom(s, i + 1)
            ELSE IF codePoint = NaN \/ codePoint > 1114111
                 THEN SubSeq(s, i, stop - 1) \o DecodeFrom(s, stop)
            ELSE <<fromCodePoint(codePoint)>> \o DecodeFrom(s, stop)
    ELSE <<s[i]>> \o DecodeFrom(s, i + 1)

decodeNumericCharacterReferences(s) == DecodeFrom(s, 1)

\* s.replace(/[\u0000-\u001F\u007F\s]+/g, "").toLowerCase()
Compact(s) == ToLowerCase(SelectSeq(s, LAMBDA c : c \notin AsciiControl \cup JsSpace))

\* a defect: the scheme test on the raw value, nothing stripped or decoded
isDangerousUrlRaw(s) ==
    StartsWith(ToLowerCase(s), S_javascript) \/ StartsWith(ToLowerCase(s), S_data)

isDangerousUrl(s) ==
    LET compact == Compact(decodeNumericCharacterReferences(s))
    IN  StartsWith(compact, S_javascript) \/ StartsWith(compact, S_data)

\* entry.trim().split(/\s+/)[0]
RECURSIVE UpToSpace(_)
UpToSpace(s) ==
    IF s = <<>> \/ Head(s) \in JsSpace THEN <<>>
    ELSE <<Head(s)>> \o UpToSpace(Tail(s))

UrlPart(entry) == UpToSpace(Trim(entry))

isDangerousSrcset(s) ==
    LET entries == Split(s, ",")
    IN  \E i \in 1..Len(entries) :
            UrlPart(entries[i]) # <<>> /\ isDangerousUrl(UrlPart(entries[i]))

isDangerousUrlValue(attrName, value) ==
    IF attrName = S_srcset THEN isDangerousSrcset(value.s) ELSE isDangerousUrl(value.s)

---------------------------------------------------------------------------
(* CSS filter                                                              *)

\* nodes of a postcss tree
Decl(prop, val, imp) ==
    [t |-> "decl", sel |-> <<>>, prop |-> prop, val |-> val, imp |-> imp, nodes |-> <<>>]
Rule(sel, nodes) ==
    [t |-> "rule", sel |-> sel, prop |-> <<>>, val |-> <<>>, imp |-> FALSE, nodes |-> nodes]
AtRule(name, nodes) ==
    [t |-> "atrule", sel |-> <<>>, prop |-> name, val |-> <<>>, imp |-> FALSE, nodes |-> nodes]
Comment ==
    [t |-> "comment", sel |-> <<>>, prop |-> <<>>, val |-> <<>>, imp |-> FALSE, nodes |-> <<>>]
\* text at which postcss.parse throws CssSyntaxError
Broken ==
    [t |-> "broken", sel |-> <<>>, prop |-> <<>>, val |-> <<>>, imp |-> FALSE, nodes |-> <<>>]

\* nodes of a postcss-value-parser tree
Word(w)      == [type |-> "word", value |-> w, nodes |-> <<>>]
Func(f, ns)  == [type |-> "function", value |-> f, nodes |-> ns]

\* postcss.parse throws: plain text is an unknown word, a broken node
\* anywhere is a syntax error
RECURSIVE HasBroken(_)
HasBroken(ns) ==
    \E i \in 1..Len(ns) : ns[i].t = "broken" \/ HasBroken(ns[i].nodes)

ParseThrows(text) == Len(text.s) > 0 \/ HasBroken(text.css)

\* valueParser(value).walk: a function node named url, at any depth
RECURSIVE HasUrlFunction(_)
HasUrlFunction(ns) ==
    \E i \in 1..Len(ns) :
        ns[i].type = "function"
        /\ (ToLowerCase(ns[i].value) = S_url \/ HasUrlFunction(ns[i].nodes))

isSafeCssValue(val) == ~HasUrlFunction(val)

\* the declarations of `nodes` that the loops of filterCss and
\* filterInlineStyle keep
AllowedDecls(nodes, allowedProps) ==
    SelectSeq(nodes, LAMBDA n :
        /\ n.t = "decl"
        /\ ToLowerCase(Trim(n.prop)) \in allowedProps
        /\ isSafeCssValue(n.val))

\* `${prop}:${node.value.trim()}`: the property lower-cased, no !important
RECURSIVE InlineDecls(_)
InlineDecls(ds) ==
    IF ds = <<>> THEN <<>>
    ELSE <<Decl(ToLowerCase(Trim(Head(ds).prop)), Head(ds).val, FALSE)>>
            \o InlineDecls(Tail(ds))

filterInlineStyle(tag, value, styleAllowlist) ==
    LET allowedProps == MapGet(styleAllowlist, S_star, {}) \cup MapGet(styleAllowlist, tag, {})
    IN  IF allowedProps = {} THEN EmptyStr
        ELSE IF ParseThrows(value) THEN EmptyStr
        ELSE Css(InlineDecls(AllowedDecls(value.css, allowedProps)))

\* the rules that replace `rule`: one per allowed selector, with clones of
\* the allowed declarations, left out when it has none
RECURSIVE NewRules(_, _, _)
NewRules(rule, sels, styleAllowlist) ==
    IF sels = <<>> THEN <<>>
    ELSE LET selector == Head(sels)
             kept == AllowedDecls(rule.nodes, styleAllowlist[selector])
         IN  (IF Len(kept) > 0 THEN <<Rule(<<selector>>, kept)>> ELSE <<>>)
                \o NewRules(rule, Tail(sels), styleAllowlist)

AllowedSelectors(rule, styleAllowlist) ==
    SelectSeq(TrimAll(rule.sel),
              LAMBDA x : x \in DOMAIN styleAllowlist)

\* the children of the root after walkAtRules and the loop over the rules
RECURSIVE FilterRoot(_, _)
FilterRoot(ns, styleAllowlist) ==
    IF ns = <<>> THEN <<>>
    ELSE LET n == Head(ns)
         IN  (IF n.t = "atrule" THEN <<>>
              ELSE IF n.t = "rule"
                   THEN NewRules(n, AllowedSelectors(n, styleAllowlist), styleAllowlist)
              ELSE <<n>>)
                \o FilterRoot(Tail(ns), styleAllowlist)

\* a defect: a stylesheet the parser rejects is left as it is
filterCssFailOpen(cssText, styleAllowlist) ==
    IF ParseThrows(cssText) THEN cssText
    ELSE Css(FilterRoot(cssText.css, styleAllowlist))

filterCss(cssText, styleAllowlist) ==
    IF ParseThrows(cssText) THEN EmptyStr
    ELSE Css(FilterRoot(cssText.css, styleAllowlist))

\* filtered.trim().length === 0
IsBlank(text) == Len(Trim(text.s)) = 0 /\ Len(text.css) = 0

filterStyleElement(dom, n, styleAllowlist) ==
    LET filtered == filterCss(textContent(dom, n), styleAllowlist)
    IN  IF IsBlank(filtered) THEN RemoveElement(dom, n)
        ELSE SetTextContent(dom, n, filtered)

---------------------------------------------------------------------------
(* Attribute filter                                                        *)

\* a defect: one allowed set for all tags, the union of every tag's attributes
AllowedAttrsAnyTag(tag, attrAllowlist, allowCommonAttributes) ==
    UNION {attrAllowlist[t] : t \in DOMAIN attrAllowlist}
      \cup (IF allowCommonAttributes
            THEN COMMON_GLOBAL_ATTRS \cup MapGet(COMMON_ATTRS, tag, {})
            ELSE {})

AllowedAttrs(tag, attrAllowlist, allowCommonAttributes) ==
    MapGet(attrAllowlist, tag, {})
      \cup (IF allowCommonAttributes
            THEN COMMON_GLOBAL_ATTRS \cup MapGet(COMMON_ATTRS, tag, {})
            ELSE {})

\* the body of the for-loop of filterAttributes for one attribute: what is
\* left of it, <<>> when it is removed
FilterAttribute(attr, tag, allowedAttrs, styleAllowlist, allowJavaScript) ==
    LET name == ToLowerCase(attr.name)
    IN  IF ~allowJavaScript /\ StartsWith(name, S_on) THEN <<>>
        ELSE IF name \notin allowedAttrs THEN <<>>
        ELSE IF name = S_style THEN
            LET filtered == filterInlineStyle(tag, attr.value, styleAllowlist)
            IN  IF StrLen(filtered) = 0 THEN <<>>
                ELSE <<Attr(attr.name, filtered)>>
        ELSE IF ~allowJavaScript /\ name \in URL_ATTRS
                /\ isDangerousUrlValue(name, attr.value) THEN <<>>
        ELSE <<attr>>

\* a defect: the loop over the live element.attributes instead of a copy of
\* it, which steps over the attribute that follows a removed one
RECURSIVE AttributeLoopLive(_, _, _, _, _)
AttributeLoopLive(attrs, tag, allowedAttrs, styleAllowlist, allowJavaScript) ==
    IF attrs = <<>> THEN <<>>
    ELSE LET kept == FilterAttribute(Head(attrs), tag, allowedAttrs, styleAllowlist,
                                     allowJavaScript)
         IN  IF kept = <<>> /\ Len(attrs) >= 2
             THEN <<attrs[2]>> \o AttributeLoopLive(Tail(Tail(attrs)), tag, allowedAttrs,
                                                    styleAllowlist, allowJavaScript)
             ELSE kept \o AttributeLoopLive(Tail(attrs), tag, allowedAttrs,
                                            styleAllowlist, allowJavaScript)

\* for (const attr of Array.from(element.attributes)): every attribute of the
\* snapshot is visited
RECURSIVE AttributeLoop(_, _, _, _, _)
AttributeLoop(attrs, tag, allowedAttrs, styleAllowlist, allowJavaScript) ==
    IF attrs = <<>> THEN <<>>
    ELSE FilterAttribute(Head(attrs), tag, allowedAttrs, styleAllowlist, allowJavaScript)
            \o AttributeLoop(Tail(attrs), tag, allowedAttrs, styleAllowlist, allowJavaScript)

filterAttributes(dom, n, tag, attrAllowlist, styleAllowlist, allowCommonAttributes, allowJavaScript) ==
    [dom EXCEPT ![n].attrs =
        AttributeLoop(@, tag, AllowedAttrs(tag, attrAllowlist, allowCommonAttributes),
                      styleAllowlist, allowJavaScript)]

---------------------------------------------------------------------------
(* The defense-in-depth pass                                               *)

RECURSIVE SetSum(_, _)
SetSum(f, keys) ==
    IF keys = {} THEN 0
    ELSE LET k == CHOOSE x \in keys : TRUE IN f[k] + SetSum(f, keys \ {k})

\* ATTR_WHITESPACE of DOMPurify, /[\u0000-\u0020\u00A0...]/: it has neither
\* U+007F nor U+FEFF
AttrWhitespace == {" ", "\t", "\n", CTRL}

\* the attributes DOMPurify never checks as URIs (URI_SAFE_ATTRIBUTES)
UriSafeAttributes == {S_alt, S_class, S_id, S_title, S_style}

\* the elements DOMPurify lets carry a data: URI in src or href (DATA_URI_TAGS)
DataUriTags == {S_img}

SafeSchemes ==
    { <<"h", "t", "t", "p", ":">>, <<"h", "t", "t", "p", "s", ":">>,
      <<"f", "t", "p", ":">>, <<"f", "t", "p", "s", ":">>,
      <<"m", "a", "i", "l", "t", "o", ":">>, <<"t", "e", "l", ":">>,
      <<"c", "a", "l", "l", "t", "o", ":">>, <<"s", "m", "s", ":">>,
      <<"c", "i", "d", ":">>, <<"x", "m", "p", "p", ":">>,
      <<"m", "a", "t", "r", "i", "x", ":">> }

IsLetter(c) == \E i \in 1..Len(LowerLetters) : LowerLetters[i] = LowerChar(c)

\* what follows the longest prefix matching /[a-z+.\-]+/i
RECURSIVE AfterSchemeChars(_)
AfterSchemeChars(s) ==
    IF s = <<>> THEN <<>>
    ELSE IF IsLetter(Head(s)) \/ Head(s) \in {"+", ".", "-"}
         THEN AfterSchemeChars(Tail(s))
    ELSE s

\* IS_ALLOWED_URI of DOMPurify tested on the value without ATTR_WHITESPACE
IsAllowedUri(s) ==
    LET t == SelectSeq(s, LAMBDA c : c \notin AttrWhitespace)
    IN  /\ t # <<>>
        /\ \/ \E p \in SafeSchemes : StartsWith(ToLowerCase(t), p)
           \/ ~IsLetter(Head(t))
           \/ LET rest == AfterSchemeChars(t)
              IN  rest = <<>> \/ Head(rest) # ":"

\* the check DOMPurify makes of an attribute that ALLOWED_ATTR names
IsValidAttribute(tag, a) ==
    \/ a.name \in UriSafeAttributes
    \/ IsAllowedUri(a.value.s)
    \/ /\ a.name \in {S_src, S_href} /\ tag # S_script
       /\ StartsWith(a.value.s, S_data) /\ tag \in DataUriTags
    \/ a.value.s = <<>>

\* DOMPurify removes an element whose tag is not allowed and keeps its
\* children in its place, except for script and style, whose content goes too
PurifyElement(dom, n, allowedTags, allowedAttrs) ==
    IF ~isConnected(dom, n) THEN dom
    ELSE IF dom[n].tag \in allowedTags THEN
        [dom EXCEPT ![n].attrs =
            SelectSeq(@, LAMBDA a : a.name \in allowedAttrs
                                      /\ IsValidAttribute(dom[n].tag, a))]
    ELSE IF dom[n].tag \in {S_script, S_style} THEN RemoveElement(dom, n)
    ELSE unwrapElement(dom, n)

RECURSIVE PurifyLoop(_, _, _, _, _)
PurifyLoop(dom, els, i, allowedTags, allowedAttrs) ==
    IF i > Len(els) THEN dom
    ELSE PurifyLoop(PurifyElement(dom, els[i], allowedTags, allowedAttrs),
                    els, i + 1, allowedTags, allowedAttrs)

\* purifier.sanitize(html, {ALLOWED_TAGS, ALLOWED_ATTR, WHOLE_DOCUMENT: true})
PurifierSanitize(text, allowedTags, allowedAttrs) ==
    LET dom == parseFromString(text)
    IN  OuterHTML(PurifyLoop(dom, <<HtmlId>> \o Descendants(dom, HtmlId), 1,
                             allowedTags, allowedAttrs), HtmlId)

applyDomPurify(text, pol, cfg) ==
    LET allowJavaScript == Coalesce(cfg.allowJavaScript, FALSE)
        allowedTags == ((DOMAIN pol.tagCounts) \cup STRUCTURAL_TAGS)
                          \ (IF ~allowJavaScript THEN {S_script} ELSE {})
        declared == UNION {pol.attrAllowlist[t] : t \in DOMAIN pol.attrAllowlist}
        common == IF Coalesce(cfg.allowCommonAttributes, FALSE)
                  THEN COMMON_GLOBAL_ATTRS
                         \cup UNION {COMMON_ATTRS[t] : t \in DOMAIN COMMON_ATTRS}
                  ELSE {}
    IN  PurifierSanitize(text, allowedTags, declared \cup common)

---------------------------------------------------------------------------
(* One filtering pass: sanitizeOnceWithPolicy                              *)

\* a defect: the policy keeps a reference to the caller's config object
SharedConfig == config

\* policy.config as the passes read it: the policy's own copy
PolicyConfig == policy.config

allowCommonAttributes == Coalesce(PolicyConfig.allowCommonAttributes, FALSE)
allowJavaScript       == Coalesce(PolicyConfig.allowJavaScript, FALSE)
maxPasses             == Coalesce(PolicyConfig.maxPasses, DefaultMaxPasses)

allowStyleTag(pol) ==
    MapGet(pol.tagCounts, S_style, 0) > 0 /\ DOMAIN pol.styleAllowlist # {}

\* a defect: the threshold counts the tags that have a budget, not the budgets
totalAllowedTagsDistinct(pol) ==
    Cardinality({t \in (DOMAIN pol.tagCounts) \ STRUCTURAL_TAGS : pol.tagCounts[t] > 0})

\* a defect: the budgets of html, head and body count towards the threshold
totalAllowedTagsAll(pol) == SetSum(pol.tagCounts, DOMAIN pol.tagCounts)

totalAllowedTags(pol) ==
    SetSum(pol.tagCounts, (DOMAIN pol.tagCounts) \ STRUCTURAL_TAGS)

\* a defect: the counters live outside the pass and are never reset
StalePassState(pol) ==
    [used |-> usedTagCounts, total |-> usedTotalTags, saturated |-> countsSaturated]

\* lines 128-130: the state a pass starts with
FreshPassState(pol) ==
    [used |-> EmptyMap, total |-> 0, saturated |-> totalAllowedTags(pol) = 0]

PassState == [used |-> usedTagCounts, total |-> usedTotalTags, saturated |-> countsSaturated]

\* a defect: the budget test off by one
BudgetSpentOffByOne(usedCount, allowedCount) == usedCount > allowedCount

\* if (usedCount >= allowedCount): the tag's budget is spent
BudgetSpent(usedCount, allowedCount) == usedCount >= allowedCount

\* the body of the for-loop over `elements` for the element n: the document
\* and the pass state after it
VisitElement(dom, st, n, pol, allowCommon, allowJS) ==
    LET tag          == ToLowerCase(dom[n].tag)
        isStructural == tag \in STRUCTURAL_TAGS
        allowedCount == MapGet(pol.tagCounts, tag, 0)
        usedCount    == MapGet(st.used, tag, 0)
        removed      == [doc |-> RemoveElement(dom, n), st |-> st]
        unwrapped    == [doc |-> unwrapElement(dom, n), st |-> st]
    IN  IF ~isConnected(dom, n) THEN [doc |-> dom, st |-> st]
        ELSE IF ~allowJS /\ tag = S_script THEN removed
        ELSE IF tag = S_style /\ ~allowStyleTag(pol) THEN removed
        ELSE IF ~isStructural /\ st.saturated THEN
            (IF allowedCount = 0 THEN unwrapped ELSE removed)
        ELSE IF ~isStructural /\ allowedCount = 0 THEN unwrapped
        ELSE IF ~isStructural /\ BudgetSpent(usedCount, allowedCount) THEN removed
        ELSE
            LET counted == IF isStructural THEN st
                           ELSE [st EXCEPT !.used = MapSet(@, tag, usedCount + 1),
                                           !.total = @ + 1]
                filtered == filterAttributes(dom, n, tag, pol.attrAllowlist,
                                pol.styleAllowlist, allowCommon, allowJS)
                st2 == IF ~isStructural /\ ~counted.saturated
                          /\ counted.total >= totalAllowedTags(pol)
                       THEN [counted EXCEPT !.saturated = TRUE] ELSE counted
            IN  [doc |-> IF tag = S_style
                         THEN filterStyleElement(filtered, n, pol.styleAllowlist)
                         ELSE filtered,
                 st  |-> st2]

---------------------------------------------------------------------------
(* The module's handles: fallbackWindow, cachedPurify                      *)

\* globalThis of a plain Node process: no window, no DOMParser
NodeGlobals == [window |-> Undefined, DOMParser |-> FALSE]

\* a window the host has put into globalThis.window; DOMParser tells whether
\* typeof win.DOMParser === "function"
GlobalWindow(id, hasParser) == [id |-> id, DOMParser |-> hasParser]

\* new Window(): the k-th window this module creates
NewWindow(k) == [id |-> <<"fallback", k>>, DOMParser |-> TRUE]

\* if (!fallbackWindow) { fallbackWindow = new Window(); ... }
EnsureFallbackWindow(fw, cr) ==
    IF fw = Undefined
    THEN [fallbackWindow |-> Some(NewWindow(cr.windows + 1)),
          created |-> [cr EXCEPT !.windows = @ + 1]]
    ELSE [fallbackWindow |-> fw, created |-> cr]

\* getDomParser(): the global DOMParser when there is one, else the fallback
\* window's; what it leaves in fallbackWindow
getDomParser(g, fw, cr) ==
    IF g.DOMParser THEN [fallbackWindow |-> fw, created |-> cr]
    ELSE EnsureFallbackWindow(fw, cr)

\* getDomWindow(): globalThis.window when it has a DOMParser function, else
\* the fallback window
getDomWindow(g, fw, cr) ==
    IF g.window # Undefined /\ g.window[1].DOMParser
    THEN [domWindow |-> g.window[1], fallbackWindow |-> fw, created |-> cr]
    ELSE LET r == EnsureFallbackWindow(fw, cr)
         IN  [domWindow |-> r.fallbackWindow[1], fallbackWindow |-> r.fallbackWindow,
              created |-> r.created]

\* a defect: a new purifier on every call of applyDomPurify
StalePurifierAlways(cp, domWindow) == TRUE

\* !cachedPurify || cachedPurify.window !== domWindow
StalePurifier(cp, domWindow) == cp = Undefined \/ cp[1].window # domWindow

\* the head of applyDomPurify: cachedPurify after it
PurifierFor(cp, domWindow, cr) ==
    IF StalePurifier(cp, domWindow)
    THEN [cachedPurify |-> Some([window |-> domWindow, purifier |-> cr.purifiers + 1]),
          created |-> [cr EXCEPT !.purifiers = @ + 1]]
    ELSE [cachedPurify |-> cp, created |-> cr]

\* the module is loaded in a plain Node process: no handle exists yet
ModuleLoaded ==
    /\ globals = NodeGlobals
    /\ fallbackWindow = Undefined
    /\ cachedPurify = Undefined
    /\ created = [windows |-> 0, purifiers |-> 0, hostChanges |-> 0]

---------------------------------------------------------------------------
(* The caller, sanitize and sanitizeWithPolicy                             *)

EmptyConfig ==
    [allowCommonAttributes |-> Undefined, allowJavaScript |-> Undefined,
     maxPasses |-> Undefined]

NoMemo ==
    [has |-> FALSE, html |-> <<>>, rules |-> <<>>, config |-> EmptyConfig,
     policy |-> compileRules(<<>>, EmptyConfig), flavour |-> "none", pass |-> 0,
     result |-> <<>>]

Init ==
    /\ pc = "idle"
    /\ rules = <<>> /\ config = EmptyConfig /\ config0 = EmptyConfig
    /\ policy = compileRules(<<>>, EmptyConfig)
    /\ flavour = "none"
    /\ html = <<>> /\ current = <<>> /\ next = <<>> /\ pass = 0 /\ result = <<>>
    /\ purified = FALSE /\ passesRun = 0
    /\ doc = <<>> /\ elements = <<>> /\ idx = 1
    /\ usedTagCounts = EmptyMap /\ usedTotalTags = 0 /\ countsSaturated = FALSE
    /\ memo = NoMemo
    /\ between = FALSE
    /\ ModuleLoaded

\* the entry of sanitizeWithPolicy(h, policy)
Enter(h) ==
    /\ html' = h /\ current' = h /\ next' = <<>> /\ pass' = 0 /\ result' = <<>>
    /\ purified' = FALSE /\ passesRun' = 0
    /\ pc' = "loop"

\* policy = compileRules(r, c), kept by the caller
CompileRules(R, C) ==
    /\ pc = "idle"
    /\ \E r \in R, c \in C :
          /\ rules' = r /\ config' = c /\ config0' = c
          /\ policy' = compileRules(r, c)
    /\ flavour' = "twophase"
    /\ UNCHANGED <<pc, callVars, passVars, histVars, envVars>>

\* the caller changes its config object after compileRules
MutateConfig(C) ==
    /\ pc = "idle" /\ flavour = "twophase"
    /\ \E c \in C : c # config /\ config' = c
    /\ UNCHANGED <<pc, rules, config0, policy, flavour, callVars, passVars, histVars, envVars>>

\* sanitizeWithPolicy(h, policy) with the policy the caller keeps
SanitizeWithPolicy(H) ==
    /\ pc = "idle" /\ flavour = "twophase"
    /\ \E h \in H : Enter(h)
    /\ UNCHANGED <<polVars, passVars, histVars, envVars>>

\* sanitize(h, r, c)
Sanitize(H, R, C) ==
    /\ pc = "idle"
    /\ \E h \in H, r \in R, c \in C :
          /\ rules' = r /\ config' = c /\ config0' = c
          /\ policy' = compileRules(r, c)
          /\ Enter(h)
    /\ flavour' = "oneshot"
    /\ UNCHANGED <<passVars, histVars, envVars>>

\* sanitize(out, r, c) where out is what the remembered sanitize(h, r, c) returned
Resanitize ==
    /\ pc = "idle" /\ memo.has
    /\ rules' = memo.rules /\ config' = memo.config /\ config0' = memo.config
    /\ policy' = compileRules(memo.rules, memo.config)
    /\ Enter(memo.result)
    /\ flavour' = "oneshot"
    /\ UNCHANGED <<passVars, histVars, envVars>>

\* a defect: the loop runs one pass more than maxPasses
LoopTestInclusive == pass <= maxPasses

\* the test of the for-loop of sanitizeWithPolicy
LoopTest == pass < maxPasses

\* the loop test holds: sanitizeOnceWithPolicy parses and takes the snapshot
BeginPass ==
    /\ pc = "loop" /\ LoopTest
    /\ LET dom == parseFromString(current)
           fresh == FreshPassState(policy)
       IN  /\ doc' = dom
           /\ elements' = <<HtmlId>> \o Descendants(dom, HtmlId)
           /\ idx' = 1
           /\ usedTagCounts' = fresh.used
           /\ usedTotalTags' = fresh.total
           /\ countsSaturated' = fresh.saturated
    /\ passesRun' = passesRun + 1
    /\ pc' = "walk"
    /\ LET r == getDomParser(globals, fallbackWindow, created)
       IN  fallbackWindow' = r.fallbackWindow /\ created' = r.created
    /\ UNCHANGED <<polVars, html, current, next, pass, result, purified, histVars,
                   globals, cachedPurify>>

\* the loop test fails: return current
ReturnCurrent ==
    /\ pc = "loop" /\ ~LoopTest
    /\ result' = current
    /\ pc' = "done"
    /\ UNCHANGED <<polVars, html, current, next, pass, purified, passesRun, passVars, histVars, envVars>>

\* one iteration of the for-loop over the snapshot
Visit ==
    /\ pc = "walk" /\ idx <= Len(elements)
    /\ LET r == VisitElement(doc, PassState, elements[idx], policy,
                             allowCommonAttributes, allowJavaScript)
       IN  /\ doc' = r.doc
           /\ usedTagCounts' = r.st.used
           /\ usedTotalTags' = r.st.total
           /\ countsSaturated' = r.st.saturated
    /\ idx' = idx + 1
    /\ UNCHANGED <<pc, polVars, callVars, elements, histVars, envVars>>

\* the end of the pass: serialize, applyDomPurify, compare with current
EndPass ==
    /\ pc = "walk" /\ idx > Len(elements)
    /\ LET out == applyDomPurify(OuterHTML(doc, HtmlId), policy, PolicyConfig)
       IN  /\ next' = out
           /\ IF out = current
              THEN result' = out /\ pc' = "done" /\ UNCHANGED <<current, pass>>
              ELSE current' = out /\ pass' = pass + 1 /\ pc' = "loop"
                   /\ UNCHANGED result
    /\ purified' = TRUE
    /\ doc' = <<>> /\ elements' = <<>> /\ idx' = 1
    /\ LET w == getDomWindow(globals, fallbackWindow, created)
           p == PurifierFor(cachedPurify, w.domWindow, w.created)
       IN  /\ fallbackWindow' = w.fallbackWindow
           /\ cachedPurify' = p.cachedPurify
           /\ created' = p.created
    /\ UNCHANGED <<polVars, html, passesRun, usedTagCounts, usedTotalTags,
                   countsSaturated, histVars, globals>>

\* the locals of sanitizeWithPolicy go; so does the policy that sanitize
\* compiled for itself, while the caller of compileRules keeps its policy
Forget ==
    /\ html' = <<>> /\ current' = <<>> /\ next' = <<>> /\ pass' = 0 /\ result' = <<>>
    /\ purified' = FALSE /\ passesRun' = 0
    /\ IF flavour = "oneshot"
       THEN /\ rules' = <<>> /\ config' = EmptyConfig /\ config0' = EmptyConfig
            /\ policy' = compileRules(<<>>, EmptyConfig)
            /\ flavour' = "none"
       ELSE UNCHANGED polVars
    /\ pc' = "idle"

\* the caller has the result; the locals of the call are gone
Return ==
    /\ pc = "done"
    /\ Forget
    /\ between' = (between \/ (memo.has /\ html # memo.html))
    /\ UNCHANGED <<passVars, memo, envVars>>

\* the caller has the result and remembers the call
Remember ==
    /\ pc = "done" /\ ~memo.has
    /\ memo' = [has |-> TRUE, html |-> html, rules |-> rules, config |-> config0,
                policy |-> policy, flavour |-> flavour, pass |-> pass,
                result |-> result]
    /\ Forget
    /\ between' = FALSE
    /\ UNCHANGED <<passVars, envVars>>

---------------------------------------------------------------------------
(* Inputs                                                                  *)

MaxPassesBound == 2

ConfigPool ==
    {[allowCommonAttributes |-> ac, allowJavaScript |-> aj, maxPasses |-> mp] :
        ac \in {Undefined, Some(TRUE)},
        aj \in {Undefined, Some(TRUE)},
        mp \in {Undefined} \cup {Some(n) : n \in 0..MaxPassesBound}}

Bar == <<"|">>
AttrRule(tag, attr)   == tag \o Bar \o attr
StyleRule(sel, prop)  == S_style \o Bar \o sel \o Bar \o prop

S_header  == <<".", "h", "e", "a", "d", "e", "r">>
S_evil    == <<".", "e", "v", "i", "l">>
S_margin  == <<"m", "a", "r", "g", "i", "n">>
S_padding == <<"p", "a", "d", "d", "i", "n", "g">>
S_color   == <<"c", "o", "l", "o", "r">>
S_x       == <<"x">>

RulesPool ==
    { <<>>,
      <<S_p, S_a, S_a>>,
      <<S_a, S_p>>,
      <<S_a, AttrRule(S_a, S_href), AttrRule(S_a, S_onclick)>>,
      <<S_style, StyleRule(S_header, S_margin)>>,
      <<S_style, S_p>>,
      <<StyleRule(S_header, S_margin), S_div>>,
      <<S_style, S_style, StyleRule(S_header, S_margin), StyleRule(S_header, S_color),
        StyleRule(S_p, S_margin)>>,
      <<S_p, S_div, AttrRule(S_p, S_style), AttrRule(S_div, S_style),
        AttrRule(S_a, S_style), S_a,
        StyleRule(S_star, S_color), StyleRule(S_p, S_margin)>>,
      <<S_img, S_img, S_a, AttrRule(S_img, S_srcset), AttrRule(S_img, S_src),
        AttrRule(S_a, S_href), AttrRule(S_a, S_srcset)>>,
      <<S_html, S_body, S_script, S_div, AttrRule(S_html, S_lang),
        AttrRule(S_html, S_onclick), AttrRule(S_body, S_class),
        AttrRule(S_div, S_href)>>,
      <<<<" ", "A", " ">>, <<"P">>, <<"a", " ", "|", " ", "H", "R", "E", "F">>,
        <<"a", "|">>, <<"a", "|", "b", "|", "c">>>> }

T_ok == TextTok(Str(<<"o", "k">>))

U_ok    == Str(<<"/", "x">>)
U_js    == Str(S_javascript \o S_x)
U_jsWs  == Str(<<" ", "J", "a", "v", "a", "\n", "s", "c", "r", "i", "p", "t", ":", "x">>)
U_jsDel == Str(<<"j", "a", "v", "a", DEL, "s", "c", "r", "i", "p", "t", ":", "x">>)
U_data  == Str(S_data \o S_x)
U_ent   == Str(<<"&", "#", "1", "0", "6", ";", "a", "v", "a",
                 "s", "c", "r", "i", "p", "t", ":", "x">>)
U_entX  == Str(<<"&", "#", "x", "6", "A", ";", "a", "v", "a",
                 "s", "c", "r", "i", "p", "t", ":", "x">>)
\* srcset values
SS_ok     == Str(<<"/", "x", " ", "1", "x", ",", " ", "/", "y", " ", "2", "x">>)
SS_second == Str(<<"/", "x", " ", "1", "x", ",", " ">> \o S_javascript \o S_x)
SS_split  == Str(<<"j", "a", "v", "a", " ", "s", "c", "r", "i", "p", "t", ":", "x">>)
SS_bom    == Str(<<"j", "a", "v", "a", BOM, "s", "c", "r", "i", "p", "t", ":", "x">>)
SS_data   == Str(<<"d", "a", "t", "a", "\t", ":", "x">>)

V_0   == <<Word(<<"0">>)>>
V_red == <<Word(<<"r", "e", "d">>)>>
V_url == <<Func(<<"U", "r", "l">>, <<Word(S_x)>>)>>
V_nestedUrl == <<Func(<<"i", "m", "a", "g", "e", "-", "s", "e", "t">>,
                      <<Func(S_url, <<Word(S_x)>>), Word(<<"1", "x">>)>>)>>
V_calc == <<Func(<<"c", "a", "l", "c">>, <<Word(<<"1">>)>>)>>

El(tag, attrs, kids) == <<OpenTok(tag, attrs)>> \o kids \o <<CloseTok(tag)>>

HtmlPool ==
    { <<>>,
      \* <p><a>ok</a><a>ok</a><a>ok</a></p>
      El(S_p, <<>>, El(S_a, <<>>, <<T_ok>>) \o El(S_a, <<>>, <<T_ok>>)
                       \o El(S_a, <<>>, <<T_ok>>)),
      \* <div><p><a>ok</a></p></div>
      El(S_div, <<>>, El(S_p, <<>>, El(S_a, <<>>, <<T_ok>>))),
      \* <a href="javascript:x" onclick="x">ok</a>
      El(S_a, <<Attr(S_href, U_js), Attr(S_onclick, Str(S_x))>>, <<T_ok>>),
      \* <style>.header{margin:0;padding:0}</style>
      El(S_style, <<>>,
         <<TextTok(Css(<<Rule(<<S_header>>, <<Decl(S_margin, V_0, FALSE),
                                               Decl(S_padding, V_0, FALSE)>>)>>))>>),
      \* <a href=" Java\nscript:x" title="/x">ok</a><a href="/x" class="x"></a>
      \* <a href="&#106;avascript:x"></a>
      El(S_a, <<Attr(S_href, U_jsWs), Attr(S_title, U_ok)>>, <<T_ok>>)
        \o El(S_a, <<Attr(S_href, U_ok), Attr(S_class, Str(S_x))>>, <<>>)
        \o El(S_a, <<Attr(S_href, U_ent)>>, <<>>),
      \* <a href="java<DEL>script:x" srcset="java script:x"></a><a href="data:x"></a>
      \* <a href="&#x6A;avascript:x"></a>
      El(S_a, <<Attr(S_href, U_jsDel), Attr(S_srcset, SS_split)>>, <<>>)
        \o El(S_a, <<Attr(S_href, U_data)>>, <<>>)
        \o El(S_a, <<Attr(S_href, U_entX)>>, <<>>),
      \* <img srcset="/x 1x, /y 2x" src="/x"><img srcset="/x 1x, javascript:x" src="data:x">
      El(S_img, <<Attr(S_srcset, SS_ok), Attr(S_src, U_ok)>>, <<>>)
        \o El(S_img, <<Attr(S_srcset, SS_second), Attr(S_src, U_data)>>, <<>>),
      \* <img srcset="java<BOM>script:x"><img srcset="data\t:x"><img srcset="java script:x">
      El(S_img, <<Attr(S_srcset, SS_bom)>>, <<>>)
        \o El(S_img, <<Attr(S_srcset, SS_data)>>, <<>>)
        \o El(S_img, <<Attr(S_srcset, SS_split)>>, <<>>),
      \* <style>@import x; .header, .evil {margin:0; MARGIN:Url(x); padding:0;
      \*        color:image-set(url(x) 1x); color:red !important; .header{color:red}}
      \*        /**/ p{color:red}</style><style>.header{margin:calc(1)}</style>
      El(S_style, <<>>,
         <<TextTok(Css(<<AtRule(<<"i", "m", "p", "o", "r", "t">>, <<>>),
                         Rule(<<<<" ">> \o S_header, S_evil>>,
                              <<Decl(S_margin, V_0, FALSE),
                                Decl(<<"M", "A", "R", "G", "I", "N">>, V_url, FALSE),
                                Decl(S_padding, V_0, FALSE),
                                Decl(S_color, V_nestedUrl, FALSE),
                                Decl(S_color, V_red, TRUE),
                                Rule(<<S_header>>, <<Decl(S_color, V_red, FALSE)>>)>>),
                         Comment,
                         Rule(<<S_p>>, <<Decl(S_color, V_red, FALSE)>>)>>))>>)
        \o El(S_style, <<>>,
              <<TextTok(Css(<<Rule(<<S_header>>, <<Decl(S_margin, V_calc, FALSE)>>)>>))>>),
      \* <style>@media x {.header{margin:0}}</style><style>.header{margin:0</style>
      \* <style>ok</style><style></style>
      El(S_style, <<>>,
         <<TextTok(Css(<<AtRule(<<"m", "e", "d", "i", "a">>,
                                <<Rule(<<S_header>>, <<Decl(S_margin, V_0, FALSE)>>)>>)>>))>>)
        \o El(S_style, <<>>,
              <<TextTok(Css(<<Rule(<<S_header>>, <<Decl(S_margin, V_0, FALSE)>>), Broken>>))>>)
        \o El(S_style, <<>>, <<T_ok>>)
        \o El(S_style, <<>>, <<>>),
      \* <style>color:red; margin:url(x)</style>
      El(S_style, <<>>,
         <<TextTok(Css(<<Decl(S_color, V_red, FALSE), Decl(S_margin, V_url, FALSE)>>))>>),
      \* <p style="COLOR:red !important; margin:Url(x); margin:0; padding:0; @import x">ok</p>
      \* <div style="color:red; margin:0"></div><a style="ok"></a><p style="color:red; }"></p>
      El(S_p, <<Attr(S_style, Css(<<Decl(<<"C", "O", "L", "O", "R">>, V_red, TRUE),
                                    Decl(S_margin, V_url, FALSE),
                                    Decl(S_margin, V_0, FALSE),
                                    Decl(S_padding, V_0, FALSE),
                                    AtRule(<<"i", "m", "p", "o", "r", "t">>, <<>>)>>))>>,
         <<T_ok>>)
        \o El(S_div, <<Attr(S_style, Css(<<Decl(S_color, V_red, FALSE),
                                           Decl(S_margin, V_0, FALSE)>>))>>, <<>>)
        \o El(S_a, <<Attr(S_style, Str(<<"o", "k">>))>>, <<>>)
        \o El(S_p, <<Attr(S_style, Css(<<Decl(S_color, V_red, FALSE), Broken>>))>>, <<>>),
      \* <script>ok</script><div><script>ok</script><a>ok</a></div>
      El(S_script, <<>>, <<T_ok>>)
        \o El(S_div, <<>>, El(S_script, <<>>, <<T_ok>>) \o El(S_a, <<>>, <<T_ok>>)),
      \* <a><p><a>ok</a><div>ok</div></p></a><p>ok</p><a>ok</a>
      El(S_a, <<>>, El(S_p, <<>>, El(S_a, <<>>, <<T_ok>>) \o El(S_div, <<>>, <<T_ok>>)))
        \o El(S_p, <<>>, <<T_ok>>) \o El(S_a, <<>>, <<T_ok>>),
      \* <p><p><a><div>ok</div></a></p><a>ok</a></p>
      El(S_p, <<>>, El(S_p, <<>>, El(S_a, <<>>, El(S_div, <<>>, <<T_ok>>)))
                      \o El(S_a, <<>>, <<T_ok>>)),
      \* <html lang="x" onclick="x" class="x"><head></head>
      \* <body class="x" id="x" href="javascript:x"><div href="javascript:x">ok</div></body></html>
      El(S_html, <<Attr(S_lang, Str(S_x)), Attr(S_onclick, Str(S_x)), Attr(S_class, Str(S_x))>>,
         El(S_head, <<>>, <<>>)
           \o El(S_body, <<Attr(S_class, Str(S_x)), Attr(S_id, Str(S_x)), Attr(S_href, U_js)>>,
                 El(S_div, <<Attr(S_href, U_js)>>, <<T_ok>>))),
      \* <A HREF="/x" href="javascript:x" ONCLICK="x" OnClick="x">ok</A><DIV>ok</DIV>
      El(<<"A">>, <<Attr(<<"H", "R", "E", "F">>, U_ok), Attr(S_href, U_js),
                    Attr(<<"O", "N", "C", "L", "I", "C", "K">>, Str(S_x)),
                    Attr(<<"O", "n", "C", "l", "i", "c", "k">>, Str(S_x))>>, <<T_ok>>)
        \o El(<<"D", "I", "V">>, <<>>, <<T_ok>>),
      \* </p><div><a>ok</div>ok<p><a>ok
      <<CloseTok(S_p), OpenTok(S_div, <<>>), OpenTok(S_a, <<>>), T_ok, CloseTok(S_div),
        T_ok, OpenTok(S_p, <<>>), OpenTok(S_a, <<>>), T_ok>> }

---------------------------------------------------------------------------
(* Specifications                                                          *)

\* one-shot calls of sanitize on the inputs above
Next ==
    \/ Sanitize(HtmlPool, RulesPool, ConfigPool)
    \/ BeginPass
    \/ ReturnCurrent
    \/ Visit
    \/ EndPass
    \/ Return

Spec == Init /\ [][Next]_vars

\* sanitize(h, r, c) as long as no call is remembered
SanitizeFirst ==
    /\ ~memo.has
    /\ Sanitize(HtmlPool, RulesPool, ConfigPool)

\* a call of sanitize, then sanitize on what it returned
NextTwice ==
    \/ SanitizeFirst
    \/ Resanitize
    \/ BeginPass
    \/ ReturnCurrent
    \/ Visit
    \/ EndPass
    \/ Return
    \/ Remember

SpecTwice == Init /\ [][NextTwice]_vars

\* a caller that keeps a compiled policy, mutates its config object and mixes
\* sanitizeWithPolicy with one-shot calls
HtmlSmall ==
    { El(S_p, <<>>, El(S_a, <<>>, <<T_ok>>) \o El(S_a, <<>>, <<T_ok>>)
                       \o El(S_a, <<>>, <<T_ok>>)),
      El(S_a, <<Attr(S_href, U_js), Attr(S_onclick, Str(S_x)), Attr(S_class, Str(S_x))>>,
         <<T_ok>>),
      El(S_script, <<>>, <<T_ok>>)
        \o El(S_div, <<>>, El(S_script, <<>>, <<T_ok>>) \o El(S_a, <<>>, <<T_ok>>)) }

RulesSmall ==
    { <<S_p, S_a, S_a>>,
      <<S_a, S_script, AttrRule(S_a, S_href), AttrRule(S_a, S_onclick)>> }

ConfigSmall ==
    { EmptyConfig,
      [EmptyConfig EXCEPT !.maxPasses = Some(1)],
      [EmptyConfig EXCEPT !.allowJavaScript = Some(TRUE)],
      [EmptyConfig EXCEPT !.allowCommonAttributes = Some(TRUE), !.maxPasses = Some(0)] }

NextReuse ==
    \/ Sanitize(HtmlSmall, RulesSmall, ConfigSmall)
    \/ CompileRules(RulesSmall, ConfigSmall)
    \/ MutateConfig(ConfigSmall)
    \/ SanitizeWithPolicy(HtmlSmall)
    \/ BeginPass
    \/ ReturnCurrent
    \/ Visit
    \/ EndPass
    \/ Return
    \/ Remember

SpecReuse == Init /\ [][NextReuse]_vars

\* a host that changes globalThis.window and globalThis.DOMParser between
\* calls of sanitize, as a test harness or a DOM shim does
MaxHostChanges == 2

GlobalsPool ==
    {[window |-> w, DOMParser |-> d] :
        w \in {Undefined, Some(GlobalWindow(<<"global", 1>>, TRUE)),
               Some(GlobalWindow(<<"global", 1>>, FALSE)),
               Some(GlobalWindow(<<"global", 2>>, TRUE))},
        d \in BOOLEAN}

\* the host assigns globalThis.window / globalThis.DOMParser; sanitize is
\* synchronous, so this happens between calls only
SetGlobals(G) ==
    /\ pc = "idle" /\ created.hostChanges < MaxHostChanges
    /\ \E g \in G : g # globals /\ globals' = g
    /\ created' = [created EXCEPT !.hostChanges = @ + 1]
    /\ UNCHANGED <<pc, polVars, callVars, passVars, histVars, fallbackWindow, cachedPurify>>

NextHost ==
    \/ SetGlobals(GlobalsPool)
    \/ Sanitize(HtmlSmall, RulesSmall, ConfigSmall)
    \/ BeginPass
    \/ ReturnCurrent
    \/ Visit
    \/ EndPass
    \/ Return

SpecHost == Init /\ [][NextHost]_vars

\* compileRules on rule lists drawn at the start
MaxRules == 2

Alphabet == {"a", "B", "|", " "}

ShortStrings ==
    {<<>>} \cup {<<c>> : c \in Alphabet} \cup {<<c, d>> : c, d \in Alphabet}

RuleStrings ==
    ShortStrings
      \cup { <<" ", "A", " ">>, <<"a", " ", "|", " ", "H", "R", "E", "F">>,
             <<"a", "|", "h", "r", "e", "f">>, <<"a", "|", "b", "|", "c">>,
             <<"a", "|", "b", "|", "c", "|", "d">>, <<"|", "|">>,
             StyleRule(S_header, S_margin),
             <<"S", "T", "Y", "L", "E", "|", " ", ".", "H", " ", "|", "C", "o", "l", "o", "r">>,
             <<"s", "t", "y", "l", "e", "|", ".", "H", "|", "m", "a", "r", "g", "i", "n">>,
             <<"s", "t", "y", "l", "e", "|", "|", "x">>,
             <<"s", "t", "y", "l", "e", "|", "x", "|", " ">>,
             S_style, <<"s", "t", "y", "l", "e", "|", "x">> }

RECURSIVE RuleLists(_)
RuleLists(n) ==
    IF n = 0 THEN {<<>>}
    ELSE RuleLists(n - 1)
           \cup {Append(rs, r) : rs \in RuleLists(n - 1), r \in RuleStrings}

InitCompile ==
    /\ pc = "compile"
    /\ rules \in RuleLists(MaxRules)
    /\ config \in {EmptyConfig, [EmptyConfig EXCEPT !.maxPasses = Some(1)]}
    /\ config0 = config
    /\ policy = compileRules(<<>>, EmptyConfig)
    /\ flavour = "none"
    /\ html = <<>> /\ current = <<>> /\ next = <<>> /\ pass = 0 /\ result = <<>>
    /\ purified = FALSE /\ passesRun = 0
    /\ doc = <<>> /\ elements = <<>> /\ idx = 1
    /\ usedTagCounts = EmptyMap /\ usedTotalTags = 0 /\ countsSaturated = FALSE
    /\ memo = NoMemo
    /\ between = FALSE
    /\ ModuleLoaded

\* policy = compileRules(rules, config)
Compile ==
    /\ pc = "compile"
    /\ policy' = compileRules(rules, config)
    /\ flavour' = "twophase"
    /\ pc' = "compiled"
    /\ UNCHANGED <<rules, config, config0, callVars, passVars, histVars, envVars>>

NextCompile == Compile

SpecCompile == InitCompile /\ [][NextCompile]_vars

---------------------------------------------------------------------------
(* What the rule list and the config of a call say, read off the rules     *)

Segments(rule) == TrimAll(Split(rule, "|"))

\* the one-segment rules naming the tag t
BareTagRules(rs, t) ==
    {i \in 1..Len(rs) : /\ Len(Segments(rs[i])) = 1
                        /\ t # <<>>
                        /\ ToLowerCase(Segments(rs[i])[1]) = t}

TagBudget(rs, t) == Cardinality(BareTagRules(rs, t))

\* the two-segment rules with both segments non-empty
AttrRules(rs) ==
    {i \in 1..Len(rs) : /\ Len(Segments(rs[i])) = 2
                        /\ Segments(rs[i])[1] # <<>>
                        /\ Segments(rs[i])[2] # <<>>}

DeclaredAttrs(rs, t) ==
    {ToLowerCase(Segments(rs[i])[2]) :
        i \in {j \in AttrRules(rs) : ToLowerCase(Segments(rs[j])[1]) = t}}

\* the three-segment rules style|selector|property
StyleRules(rs) ==
    {i \in 1..Len(rs) : /\ Len(Segments(rs[i])) = 3
                        /\ ToLowerCase(Segments(rs[i])[1]) = S_style
                        /\ Segments(rs[i])[2] # <<>>
                        /\ Segments(rs[i])[3] # <<>>}

DeclaredProps(rs, sel) ==
    {ToLowerCase(Segments(rs[i])[3]) :
        i \in {j \in StyleRules(rs) : Segments(rs[j])[2] = sel}}

GivenAllowJavaScript == Coalesce(config0.allowJavaScript, FALSE)
GivenAllowCommon     == Coalesce(config0.allowCommonAttributes, FALSE)
GivenMaxPasses       == Coalesce(config0.maxPasses, DefaultMaxPasses)

\* the allowed attribute set of a tag as the documentation states it
AllowedFor(t) ==
    DeclaredAttrs(rules, t)
      \cup (IF GivenAllowCommon
            THEN {S_class, S_id} \cup MapGet(COMMON_ATTRS, t, {})
            ELSE {})

\* the returned text and the text given, as trees
OutTree == parseFromString(result)
InTree  == parseFromString(html)
ElementsOf(dom) == {n \in 1..Len(dom) : IsElement(dom, n)}
TagOf(dom, n)   == ToLowerCase(dom[n].tag)
CountOf(dom, t) == Cardinality({n \in ElementsOf(dom) : TagOf(dom, n) = t})
AttrsOf(dom, n) == {dom[n].attrs[k] : k \in 1..Len(dom[n].attrs)}

Returned == pc = "done" /\ GivenMaxPasses >= 1

---------------------------------------------------------------------------
(* Claims                                                                  *)

C2_Budget ==
    Returned =>
        \A n \in ElementsOf(OutTree) :
            TagOf(OutTree, n) \notin STRUCTURAL_TAGS
                => CountOf(OutTree, TagOf(OutTree, n)) <= TagBudget(rules, TagOf(OutTree, n))

\* three <a> were given, two bare "a" rules: exactly two are returned, and
\* a tag with no rule was given and is gone
C2_Witness ==
    /\ Returned
    /\ TagBudget(rules, S_a) = 2
    /\ CountOf(InTree, S_a) = 3
    /\ CountOf(OutTree, S_a) = 2
    /\ \E t \in {S_div, S_p} :
          TagBudget(rules, t) = 0 /\ CountOf(InTree, t) > 0 /\ CountOf(OutTree, t) = 0

\* C3 (attribute invariant): with maxPasses >= 1, every attribute of every
\* element of the returned text, html, head and body included, has a name in
\* the allowed set of the element's tag (the attributes the rules declare for
\* the tag, plus class, id and the tag's fixed defaults under
\* allowCommonAttributes), and with JavaScript disallowed no attribute name
\* starts with "on" in any case, whatever the rules allow.
C3_Attributes ==
    Returned =>
        \A n \in ElementsOf(OutTree) : \A a \in AttrsOf(OutTree, n) :
            /\ ToLowerCase(a.name) \in AllowedFor(TagOf(OutTree, n))
            /\ ~GivenAllowJavaScript => ~StartsWith(ToLowerCase(a.name), S_on)

\* a rule allows onclick on <a>, the given <a> carries onclick and href, and
\* the returned <a> keeps href alone
C3_Witness ==
    /\ Returned /\ ~GivenAllowJavaScript
    /\ S_onclick \in DeclaredAttrs(rules, S_a)
    /\ \E n \in ElementsOf(InTree) :
          /\ TagOf(InTree, n) = S_a
          /\ \E a \in AttrsOf(InTree, n) : ToLowerCase(a.name) = S_onclick
    /\ \E n \in ElementsOf(OutTree) :
          /\ TagOf(OutTree, n) = S_a
          /\ {a.name : a \in AttrsOf(OutTree, n)} = {S_href}

\* the value with ASCII control characters and whitespace removed, lower-cased
Stripped(s) ==
    ToLowerCase(SelectSeq(s, LAMBDA c : c \notin {"\t", "\n", CTRL, DEL, " ", BOM}))

HasScriptScheme(s) ==
    StartsWith(Stripped(s), S_javascript) \/ StartsWith(Stripped(s), S_data)

\* the URLs of a srcset value: the first token of each comma-separated entry
SrcsetUrls(s) ==
    {UrlPart(Split(s, ",")[i]) : i \in 1..Len(Split(s, ","))}

\* C4 (URL invariant) as stated: with JavaScript disallowed and maxPasses >= 1
\* no URL-bearing attribute of the returned text, srcset included, has a
\* value that starts with "javascript:" or "data:" once control characters
\* and whitespace are removed and it is lower-cased.
C4_UrlWholeValue ==
    (Returned /\ ~GivenAllowJavaScript) =>
        \A n \in ElementsOf(OutTree) : \A a \in AttrsOf(OutTree, n) :
            ToLowerCase(a.name) \in URL_ATTRS => ~HasScriptScheme(a.value.s)

\* C4 amended: the property holds of the whole value of every URL-bearing
\* attribute other than srcset, and of each URL of a srcset value (the first
\* token of each comma-separated entry), not of the srcset value as a whole.
C4_UrlPerEntry ==
    (Returned /\ ~GivenAllowJavaScript) =>
        \A n \in ElementsOf(OutTree) : \A a \in AttrsOf(OutTree, n) :
            ToLowerCase(a.name) \in URL_ATTRS =>
                IF ToLowerCase(a.name) = S_srcset
                THEN \A u \in SrcsetUrls(a.value.s) : ~HasScriptScheme(u)
                ELSE ~HasScriptScheme(a.value.s)

\* href and srcset survive on returned elements while an href hiding
\* javascript: behind a control character and a srcset with a javascript:
\* entry were given and are gone
C4_Witness ==
    /\ Returned /\ ~GivenAllowJavaScript
    /\ \E n \in ElementsOf(OutTree) : \E a \in AttrsOf(OutTree, n) :
          a.name \in {S_href, S_srcset} /\ a.value.s # <<>>
    /\ \E n \in ElementsOf(InTree) : \E a \in AttrsOf(InTree, n) :
          /\ a.name \in {S_href, S_srcset}
          /\ a.value \in {U_jsDel, SS_second}
          /\ a.name \in AllowedFor(TagOf(InTree, n))
          /\ TagBudget(rules, TagOf(InTree, n)) >= 2

\* a url(...) call in a declaration value, at any depth
RECURSIVE UrlCallIn(_)
UrlCallIn(val) ==
    \E i \in 1..Len(val) :
        \/ val[i].type = "function" /\ ToLowerCase(val[i].value) = S_url
        \/ UrlCallIn(val[i].nodes)

\* the declaration d is one the rules allow under the selector sel
DeclAllowed(d, sel) ==
    /\ d.t = "decl"
    /\ ToLowerCase(Trim(d.prop)) \in DeclaredProps(rules, sel)
    /\ ~UrlCallIn(d.val)

\* a style sheet of allow-listed rules: no at-rule, and no declaration
\* outside of a rule unless rootDeclarations lets it be
StyleSheetAllowed(ns, rootDeclarations) ==
    \A i \in 1..Len(ns) :
        CASE ns[i].t = "rule" ->
                \A k \in 1..Len(ns[i].sel) : \A j \in 1..Len(ns[i].nodes) :
                    DeclAllowed(ns[i].nodes[j], ns[i].sel[k])
          [] ns[i].t = "comment" -> TRUE
          [] ns[i].t = "decl" -> rootDeclarations
          [] OTHER -> FALSE

InlineAllowed(t, ns) ==
    \A i \in 1..Len(ns) :
        /\ ns[i].t = "decl"
        /\ ToLowerCase(Trim(ns[i].prop))
              \in DeclaredProps(rules, S_star) \cup DeclaredProps(rules, t)
        /\ ~UrlCallIn(ns[i].val)

CssInvariant(rootDeclarations) ==
    /\ \A n \in ElementsOf(OutTree) :
          TagOf(OutTree, n) = S_style =>
              /\ textContent(OutTree, n).s = <<>>
              /\ StyleSheetAllowed(textContent(OutTree, n).css, rootDeclarations)
    /\ \A n \in ElementsOf(OutTree) : \A a \in AttrsOf(OutTree, n) :
          ToLowerCase(a.name) = S_style =>
              a.value.s = <<>> /\ InlineAllowed(TagOf(OutTree, n), a.value.css)
    /\ (StyleRules(rules) = {} \/ TagBudget(rules, S_style) = 0)
          => CountOf(OutTree, S_style) = 0

\* C5 (CSS invariant): with maxPasses >= 1, every declaration left in a
\* <style> element of the returned text is inside a rule whose selector is a
\* key of the style allowlist and has a property allowed for that selector;
\* every declaration left in a style attribute of a <t> has a property allowed
\* for "*" or for t; no declaration value left has a url(...) call at any
\* depth; no at-rule is left; and no <style> element is left when the rules
\* have no style|selector|property rule or no bare "style" rule.
C5_CssInvariant == Returned => CssInvariant(FALSE)

\* what does hold: the same, but for declarations that stand in a <style>
\* element outside of any rule
C5_RulesOnly == Returned => CssInvariant(TRUE)

\* a returned <style> element holds a declaration outside of any rule, with a
\* url(...) value, though the rules allow margin for .header only
C5_RootDeclaration ==
    /\ Returned
    /\ rules = <<S_style, StyleRule(S_header, S_margin)>>
    /\ \E n \in ElementsOf(OutTree) :
          /\ TagOf(OutTree, n) = S_style
          /\ \E i \in 1..Len(textContent(OutTree, n).css) :
                /\ textContent(OutTree, n).css[i].t = "decl"
                /\ UrlCallIn(textContent(OutTree, n).css[i].val)

\* C6 (mandatory defense in depth): whenever JavaScript is disallowed, for
\* every maxPasses, the text a call returns came out of applyDomPurify.
C6_AlwaysPurified ==
    (pc = "done" /\ ~GivenAllowJavaScript) => purified

\* with maxPasses = 0 a <script> element is returned as given, and no pass and
\* no applyDomPurify ran
C6_Unpurified ==
    /\ pc = "done" /\ ~GivenAllowJavaScript
    /\ config0.maxPasses = Some(0)
    /\ ~purified /\ passesRun = 0
    /\ result = html
    /\ CountOf(OutTree, S_script) > 0

\* the passes a call may run
PassCeiling == IF maxPasses > 0 THEN maxPasses ELSE 0

C7_Bounds ==
    /\ passesRun <= PassCeiling
    /\ pass <= PassCeiling
    /\ pc = "done" =>
          /\ passesRun = 0 => result = html
          /\ passesRun >= 1 => result = next
          /\ pass < maxPasses => next = current /\ passesRun = pass + 1
          /\ pass >= maxPasses => passesRun = PassCeiling

\* every step of a call brings it nearer to its return
C7_Progress ==
    pc \in {"loop", "walk"} =>
        \/ pc' = "done"
        \/ pass' = pass + 1 /\ pc' = "loop"
        \/ pc = "loop" /\ pc' = "walk" /\ pass' = pass /\ passesRun' = passesRun + 1
        \/ /\ pc = "walk" /\ pc' = "walk" /\ pass' = pass
           /\ elements' = elements /\ idx <= Len(elements) /\ idx' = idx + 1

C8_Deterministic ==
    /\ (/\ pc = "done" /\ memo.has
        /\ html = memo.html /\ policy = memo.policy) => result = memo.result
    /\ (pc = "walk" /\ idx = 1) =>
          /\ usedTagCounts = EmptyMap
          /\ usedTotalTags = 0
          /\ countsSaturated = (\A t \in DOMAIN policy.tagCounts : t \in STRUCTURAL_TAGS)
    /\ pc # "idle" => policy = compileRules(rules, config0)

\* the kept policy is used again on the remembered html after a call on
\* another html returned; the earlier pass left counters behind, and the call
\* dropped an <a> over budget just as the remembered call did
C8_Witness ==
    /\ pc = "done" /\ memo.has /\ between
    /\ flavour = "twophase" /\ memo.flavour = "twophase"
    /\ html = memo.html /\ policy = memo.policy
    /\ result = memo.result
    /\ passesRun >= 1
    /\ CountOf(InTree, S_a) = 3 /\ CountOf(OutTree, S_a) = 2

\* C9 (two-phase equivalence): sanitizeWithPolicy(html, compileRules(rules,
\* config)) and sanitize(html, rules, config) return the same text, also when
\* the caller changed its config object after compileRules.
C9_TwoPhase ==
    (/\ pc = "done" /\ memo.has
     /\ flavour # memo.flavour
     /\ html = memo.html /\ rules = memo.rules /\ config0 = memo.config)
        => result = memo.result

\* the one-shot call is remembered; the two-phase call on the same arguments
\* returns the same text after the caller switched allowJavaScript on in its
\* config object, and the text has lost its <script> elements
C9_Witness ==
    /\ pc = "done" /\ memo.has
    /\ memo.flavour = "oneshot" /\ flavour = "twophase"
    /\ html = memo.html /\ rules = memo.rules /\ config0 = memo.config
    /\ config # config0
    /\ ~GivenAllowJavaScript /\ Coalesce(config.allowJavaScript, FALSE)
    /\ TagBudget(rules, S_script) > 0
    /\ CountOf(InTree, S_script) > 0 /\ CountOf(OutTree, S_script) = 0
    /\ passesRun >= 1
    /\ result = memo.result

\* the tags, the tags with attributes and the selectors the rules name
RuleTags(rs) ==
    {ToLowerCase(Segments(rs[i])[1]) :
        i \in {j \in 1..Len(rs) : Len(Segments(rs[j])) = 1 /\ Segments(rs[j])[1] # <<>>}}
RuleAttrTags(rs)  == {ToLowerCase(Segments(rs[i])[1]) : i \in AttrRules(rs)}
RuleSelectors(rs) == {Segments(rs[i])[2] : i \in StyleRules(rs)}

\* C10 (compileRules): for every rule list compileRules returns a policy in
\* which a tag's budget is the number of one-segment rules whose trimmed,
\* lower-cased token is the tag; a tag's attribute set is made of the
\* lower-cased attributes of the two-segment rules for the tag with both
\* segments non-empty; a selector's property set is made of the lower-cased
\* properties of the three-segment rules whose first token is "style", under
\* the selector as written; and no other rule leaves a trace.
C10_Compiled ==
    pc = "compiled" =>
        /\ DOMAIN policy.tagCounts = RuleTags(rules)
        /\ \A t \in RuleTags(rules) : policy.tagCounts[t] = TagBudget(rules, t)
        /\ DOMAIN policy.attrAllowlist = RuleAttrTags(rules)
        /\ \A t \in RuleAttrTags(rules) : policy.attrAllowlist[t] = DeclaredAttrs(rules, t)
        /\ DOMAIN policy.styleAllowlist = RuleSelectors(rules)
        /\ \A x \in RuleSelectors(rules) : policy.styleAllowlist[x] = DeclaredProps(rules, x)
        /\ policy.config = config

\* a list that names a tag twice, in two spellings, compiles to a budget of 2
C10_Witness ==
    /\ pc = "compiled"
    /\ rules = << <<" ", "A", " ">>, <<"a">> >>
    /\ policy.tagCounts = (<<"a">> :> 2)
    /\ DOMAIN policy.attrAllowlist = {} /\ DOMAIN policy.styleAllowlist = {}

---------------------------------------------------------------------------
(* One filtering pass, seen at the end of its walk over the snapshot       *)

\* the for-loop over `elements` has visited every element of the snapshot
WalkDone == pc = "walk" /\ idx > Len(elements)

\* the tree the pass parsed; the tree builder numbers the elements in
\* document (pre-order) order and the walk never renumbers them
PassTree == parseFromString(current)
Snapshot == {elements[i] : i \in 1..Len(elements)}
Occurrences(t) == {n \in Snapshot : TagOf(PassTree, n) = t}
PassTags == {TagOf(PassTree, n) : n \in Snapshot}
Survivors(t) == {n \in Occurrences(t) : isConnected(doc, n)}
Min(a, b) == IF a <= b THEN a ELSE b
\* the k elements of S that come first in document order
FirstOf(S, k) == {n \in S : Cardinality({m \in S : m < n}) < k}

\* an element of the snapshot that left the document inside the subtree of
\* another element: it still hangs under its parent, which is detached
LostWithAncestor(n) == ~isConnected(doc, n) /\ doc[n].parent # 0
\* the occurrences of t that were still in the document when the walk
\* reached them
Reached(t) == {n \in Occurrences(t) : ~LostWithAncestor(n)}

\* the rules let <style> elements through: a bare style rule and a style rule
StyleTagDeclared == TagBudget(rules, S_style) > 0 /\ StyleRules(rules) # {}

\* what tag enforcement and the script and style steps leave of the k
\* earliest candidates of tag t
KeptOf(t, candidates) ==
    LET first == FirstOf(candidates, Min(TagBudget(rules, t), Cardinality(candidates)))
    IN  IF t = S_script /\ ~GivenAllowJavaScript THEN {}
        ELSE IF t = S_style /\ ~StyleTagDeclared THEN {}
        ELSE IF t = S_style
             THEN {n \in first : ~IsBlank(filterCss(textContent(PassTree, n),
                                                    policy.styleAllowlist))}
        ELSE first

\* C11 as stated (earliest-N survival): at the end of a pass's walk, for every
\* non-structural tag with budget N > 0 the elements of that tag still in the
\* document are exactly the first min(N, occurrences) occurrences of the tag
\* in document order of the tree the pass parsed.
C11_EarliestN ==
    WalkDone =>
        \A t \in PassTags \ STRUCTURAL_TAGS :
            TagBudget(rules, t) > 0
                => Survivors(t)
                     = FirstOf(Occurrences(t),
                               Min(TagBudget(rules, t), Cardinality(Occurrences(t))))

\* C11 amended: at the end of a pass's walk, for every non-structural tag with
\* budget N > 0 the elements of that tag still in the document are the first
\* min(N, k) of the k occurrences that did not leave the document inside the
\* subtree of an element removed earlier; of these none stays when the tag is
\* script and JavaScript is not allowed or the tag is style and the rules
\* declare no style rule, and a style element stays only if its filtered text
\* is not blank.
C11_EarliestReached ==
    WalkDone =>
        \A t \in PassTags \ STRUCTURAL_TAGS :
            TagBudget(rules, t) > 0 => Survivors(t) = KeptOf(t, Reached(t))

\* <p><p><a><div>ok</div></a></p><a>ok</a></p> with one bare "a" rule: the
\* first <a> left with the second <p>, which was over budget; the second <a>
\* is the one that stays
C11_Witness ==
    /\ WalkDone
    /\ TagBudget(rules, S_a) = 1 /\ TagBudget(rules, S_p) = 1
    /\ Cardinality(Occurrences(S_a)) = 2
    /\ \E n, m \in Occurrences(S_a) :
          /\ n < m
          /\ LostWithAncestor(n)
          /\ TagOf(PassTree, doc[n].parent) = S_p
          /\ Survivors(S_a) = {m}

\* the sum of the budgets the rules give to the tags other than html, head, body
NonStructuralBudget ==
    LET T == RuleTags(rules) \ STRUCTURAL_TAGS
    IN  SetSum([t \in T |-> TagBudget(rules, t)], T)

\* the walk is about to visit an html, head or body element
AtStructural ==
    /\ pc = "walk" /\ idx <= Len(elements)
    /\ TagOf(doc, elements[idx]) \in STRUCTURAL_TAGS

\* the visit of a structural element: it stays where it is with its children,
\* no counter and no flag moves, and the attributes it keeps are allowed ones
C12_Visit ==
    AtStructural =>
        LET n == elements[idx]
        IN  /\ isConnected(doc', n)
            /\ doc'[n].parent = doc[n].parent
            /\ doc'[n].kids = doc[n].kids
            /\ usedTagCounts' = usedTagCounts
            /\ usedTotalTags' = usedTotalTags
            /\ countsSaturated' = countsSaturated
            /\ \A k \in 1..Len(doc'[n].attrs) :
                  LET name == ToLowerCase(doc'[n].attrs[k].name)
                  IN  /\ name \in AllowedFor(TagOf(doc, n))
                      /\ ~GivenAllowJavaScript => ~StartsWith(name, S_on)
                      /\ \E j \in 1..Len(doc[n].attrs) : doc[n].attrs[j] = doc'[n].attrs[k]

\* no structural tag has a used counter, and during a walk the flag is set
\* exactly when the running total has reached the non-structural budgets
\* (every state of a call has a next step, so the formula below reads it in
\* each of them)
C12_Threshold ==
    /\ \A t \in STRUCTURAL_TAGS : t \notin DOMAIN usedTagCounts
    /\ pc = "walk" => (countsSaturated <=> usedTotalTags >= NonStructuralBudget)

\* C12 (structural tags are outside budget accounting): in every pass and for
\* every rule list, also one naming html, head or body as a bare tag, the
\* visit of an html, head or body element neither removes nor unwraps it,
\* moves no used counter, not the running total and not the saturation flag,
\* and filters its attributes; the saturation threshold is the sum of the
\* budgets of the other tags.
C12_Structural == [][C12_Threshold /\ C12_Visit]_vars

\* the rules name html and body as bare tags; the walk has visited <html> and
\* dropped one of its attributes and kept another, has counted nothing, and
\* the flag is not set because a non-structural budget is open
C12_Witness ==
    /\ pc = "walk" /\ idx = 2
    /\ TagBudget(rules, S_html) = 1 /\ TagBudget(rules, S_body) = 1
    /\ NonStructuralBudget > 0
    /\ isConnected(doc, HtmlId)
    /\ Len(doc[HtmlId].attrs) >= 1
    /\ Len(doc[HtmlId].attrs) < Len(PassTree[HtmlId].attrs)
    /\ usedTagCounts = EmptyMap /\ usedTotalTags = 0 /\ ~countsSaturated

\* the walk is about to visit an element of the snapshot
AtElement == pc = "walk" /\ idx <= Len(elements)

\* the loop body for the next element in a pass that has no saturation flag:
\* lines 147-156 never taken, the element decided by lines 158-170
VisitByCounters ==
    VisitElement(doc, [PassState EXCEPT !.saturated = FALSE], elements[idx], policy,
                 allowCommonAttributes, allowJavaScript)

\* the step of the pass is the step of the pass without the flag
C13_SameStep ==
    AtElement =>
        /\ doc' = VisitByCounters.doc
        /\ usedTagCounts' = VisitByCounters.st.used
        /\ usedTotalTags' = VisitByCounters.st.total

\* when the flag is set, the used counter of every non-structural tag the
\* rules name equals the tag's budget, and no other tag has a used counter
C13_AllSpent ==
    (pc = "walk" /\ countsSaturated) =>
        /\ \A t \in RuleTags(rules) \ STRUCTURAL_TAGS :
              MapGet(usedTagCounts, t, 0) = TagBudget(rules, t)
        /\ DOMAIN usedTagCounts \subseteq RuleTags(rules)

\* C13 (the saturation shortcut is a pure optimisation): for every input and
\* policy each step of a pass with the flag changes the document (kept,
\* unwrapped and removed elements, filtered attributes) and the counters as
\* the step of a pass deciding from the per-tag used counters alone; and
\* whenever the flag is set every non-structural tag's used counter equals its
\* budget.
C13_PureOptimisation == [][C13_AllSpent /\ C13_SameStep]_vars

\* the flag was set during the walk, and the element visited last, of a tag
\* with a positive budget, was removed under it
C13_Witness ==
    /\ pc = "walk" /\ idx > 1
    /\ countsSaturated /\ usedTotalTags >= 2
    /\ LET e == elements[idx - 1]
       IN  /\ TagOf(doc, e) \notin STRUCTURAL_TAGS \cup {S_script, S_style}
           /\ TagBudget(rules, TagOf(doc, e)) > 0
           /\ doc[e].parent = 0
           /\ PassTree[e].parent # 0
    /\ \E u \in Snapshot :
          /\ u > elements[idx - 1]
          /\ TagBudget(rules, TagOf(doc, u)) = 0
          /\ TagOf(doc, u) \notin STRUCTURAL_TAGS \cup {S_script, S_style}

\* the next element of the snapshot is in the document, is not html, head or
\* body and passes the script and style steps: tag enforcement decides it
AtEnforcement ==
    /\ AtElement
    /\ isConnected(doc, elements[idx])
    /\ LET tag == TagOf(doc, elements[idx])
       IN  /\ tag \notin STRUCTURAL_TAGS
           /\ ~(tag = S_script /\ ~GivenAllowJavaScript)
           /\ ~(tag = S_style /\ ~StyleTagDeclared)

\* the nodes of the subtree under n
RECURSIVE IsUnder(_, _, _)
IsUnder(dom, m, n) ==
    /\ dom[m].parent # 0
    /\ (dom[m].parent = n \/ IsUnder(dom, dom[m].parent, n))
Under(dom, n) == {m \in 1..Len(dom) : IsUnder(dom, m, n)}

\* s with its i-th element replaced by the sequence r
ReplaceAt(s, i, r) == SubSeq(s, 1, i - 1) \o r \o SubSeq(s, i + 1, Len(s))

\* n is gone from the document and its children stand where it stood
UnwrappedStep(n) ==
    LET p == doc[n].parent
    IN  /\ ~isConnected(doc', n)
        /\ doc'[n].kids = <<>>
        /\ \E i \in 1..Len(doc[p].kids) :
              /\ doc[p].kids[i] = n
              /\ doc'[p].kids = ReplaceAt(doc[p].kids, i, doc[n].kids)
        /\ \A k \in 1..Len(doc[n].kids) :
              LET c == doc[n].kids[k]
              IN  /\ doc'[c].parent = p
                  /\ isConnected(doc', c)
                  /\ doc'[c].kids = doc[c].kids
                  /\ IsElement(doc, c)
                        => \E j \in (idx + 1)..Len(elements) : elements[j] = c

\* n is gone from the document and its subtree went with it, as it was
RemovedStep(n) ==
    LET p == doc[n].parent
    IN  /\ doc'[n].parent = 0
        /\ doc'[n].kids = doc[n].kids
        /\ \E i \in 1..Len(doc[p].kids) :
              /\ doc[p].kids[i] = n
              /\ doc'[p].kids = ReplaceAt(doc[p].kids, i, <<>>)
        /\ \A m \in Under(doc, n) : doc'[m] = doc[m] /\ ~isConnected(doc', m)
        /\ Under(doc', n) = Under(doc, n)

\* the decision of tag enforcement for the next element
C14_Enforce ==
    AtEnforcement =>
        LET n == elements[idx]
            N == TagBudget(rules, TagOf(doc, n))
        IN  /\ N = 0 => UnwrappedStep(n)
            /\ (N > 0 /\ MapGet(usedTagCounts, TagOf(doc, n), 0) >= N) => RemovedStep(n)
            /\ (N = 0 \/ MapGet(usedTagCounts, TagOf(doc, n), 0) >= N)
                  => /\ usedTagCounts' = usedTagCounts
                     /\ usedTotalTags' = usedTotalTags
                     /\ countsSaturated' = countsSaturated

\* <div><p><a>ok</a></p></div>
DivPA == El(S_div, <<>>, El(S_p, <<>>, El(S_a, <<>>, <<T_ok>>)))

\* at the end of a walk every element still in the document has passed tag
\* enforcement and attribute filtering, promoted children included; and the
\* walk over <div><p><a>ok</a></p></div> with rules a, p leaves the body
\* <p><a>ok</a></p>
C14_AfterWalk ==
    WalkDone =>
        /\ \A n \in Snapshot :
              isConnected(doc, n) =>
                  /\ TagOf(doc, n) \in STRUCTURAL_TAGS \/ TagBudget(rules, TagOf(doc, n)) > 0
                  /\ \A k \in 1..Len(doc[n].attrs) :
                        ToLowerCase(doc[n].attrs[k].name) \in AllowedFor(TagOf(doc, n))
        /\ (current = DivPA /\ rules = <<S_a, S_p>>)
              => OuterHTML(doc, BodyId)
                   = El(S_body, <<>>, El(S_p, <<>>, El(S_a, <<>>, <<T_ok>>)))

RECURSIVE Detached(_, _)
Detached(dom, n) ==
    /\ n # HtmlId
    /\ (dom[n].parent = 0 \/ Detached(dom, dom[n].parent))

\* n lies inside a subtree that was removed with an element above n
InRemovedSubtree(dom, n) == dom[n].parent # 0 /\ Detached(dom, dom[n].parent)

\* during a walk the snapshot is the list of the elements of the tree as it
\* was parsed, in document order
C15_Snapshot ==
    pc = "walk" =>
        /\ Snapshot = ElementsOf(PassTree)
        /\ \A i, j \in 1..Len(elements) : i < j => elements[i] < elements[j]

\* the visit of an element inside a removed subtree changes nothing
C15_Skip ==
    (AtElement /\ InRemovedSubtree(doc, elements[idx])) =>
        /\ doc' = doc
        /\ usedTagCounts' = usedTagCounts
        /\ usedTotalTags' = usedTotalTags
        /\ countsSaturated' = countsSaturated
        /\ elements' = elements

\* C15 (detached elements are never processed): the pass walks a snapshot of
\* the elements taken before any mutation, and the visit of a snapshot element
\* lying inside a subtree removed earlier in the pass applies no step: no used
\* counter, not the running total and not the saturation flag moves, the
\* document stays as it is (no unwrap, no re-insertion, no attribute removed).
C15_DetachedSkipped == [][C15_Snapshot /\ C15_Skip]_vars

\* the walk has just passed an <a> lying in the subtree of a removed <p>: the
\* budget of a is open and stayed open, and the <a> is where it was
C15_Witness ==
    /\ pc = "walk" /\ idx > 1
    /\ LET e == elements[idx - 1]
       IN  /\ InRemovedSubtree(doc, e)
           /\ TagOf(doc, e) = S_a
           /\ TagOf(doc, doc[e].parent) = S_p
           /\ doc[e] = PassTree[e]
           /\ TagBudget(rules, S_a) > MapGet(usedTagCounts, S_a, 0)
           /\ ~countsSaturated

\* the style attributes of the element n, whatever the case of their name
StyleAttrs(dom, n) ==
    {k \in 1..Len(dom[n].attrs) : ToLowerCase(dom[n].attrs[k].name) = S_style}

\* the next element is a <style> that tag enforcement keeps and counts, so
\* that filterStyleElement runs on it
AtKeptStyle ==
    /\ AtEnforcement
    /\ TagOf(doc, elements[idx]) = S_style
    /\ MapGet(usedTagCounts, S_style, 0) < TagBudget(rules, S_style)

\* a <style> whose text the parser rejects, or whose filtered text is blank,
\* leaves the document with its text, and the walk goes on
C16_StyleElement ==
    AtKeptStyle =>
        LET n    == elements[idx]
            text == textContent(doc, n)
        IN  (ParseThrows(text) \/ IsBlank(filterCss(text, policy.styleAllowlist))) =>
                /\ ~isConnected(doc', n)
                /\ \A m \in 1..Len(doc') : m > Len(doc) => ~isConnected(doc', m)
                /\ \A c \in Under(doc, n) : ~isConnected(doc', c)
                /\ pc' = "walk" /\ idx' = idx + 1

\* the element the walk visits stays in the document: a style attribute whose
\* value the parser rejects, or whose filtered value is empty, is gone, and
\* the walk goes on
C16_StyleAttribute ==
    (AtElement /\ isConnected(doc', elements[idx])) =>
        LET n == elements[idx]
        IN  /\ \A k \in StyleAttrs(doc, n) :
                  LET value == doc[n].attrs[k].value
                  IN  (\/ ParseThrows(value)
                       \/ StrLen(filterInlineStyle(TagOf(doc, n), value,
                                                   policy.styleAllowlist)) = 0)
                        => \A j \in 1..Len(doc'[n].attrs) :
                              doc'[n].attrs[j].name # doc[n].attrs[k].name
            /\ \A j \in StyleAttrs(doc', n) :
                  /\ ~ParseThrows(doc'[n].attrs[j].value)
                  /\ StrLen(doc'[n].attrs[j].value) > 0
            /\ pc' = "walk" /\ idx' = idx + 1

\* what a call returns holds no <style> text and no style attribute value
\* that the parser rejects
C16_Returned ==
    Returned =>
        \A n \in ElementsOf(OutTree) :
            /\ TagOf(OutTree, n) = S_style => ~ParseThrows(textContent(OutTree, n))
            /\ \A k \in StyleAttrs(OutTree, n) : ~ParseThrows(OutTree[n].attrs[k].value)

\* C16 (CSS failures fail closed): when the CSS parser rejects the text of a
\* <style> element the element is removed from the document, and when it
\* rejects the value of a style attribute the attribute is removed; the walk
\* goes on with the next element, the call returns, and what it returns has
\* no CSS that the parser rejects. A <style> element whose filtered text is
\* blank and a style attribute whose filtered value is empty are removed too.
C16_FailClosed == [][C16_Returned /\ C16_StyleElement /\ C16_StyleAttribute]_vars

\* the walk has just visited a <style> whose text the parser rejects: the
\* element was counted against the budget of style and is out of the
\* document, and the walk has more elements to visit
C16_Witness ==
    /\ pc = "walk" /\ 1 < idx /\ idx <= Len(elements)
    /\ LET e == elements[idx - 1]
       IN  /\ TagOf(doc, e) = S_style
           /\ ParseThrows(textContent(PassTree, e))
           /\ HasBroken(textContent(PassTree, e).css)
           /\ doc[e].parent = 0
           /\ StyleTagDeclared
           /\ MapGet(usedTagCounts, S_style, 0) = 2
           /\ usedTotalTags = 2

\* C17 as stated (initialise-once handles): across any sequence of sanitize
\* calls in one process the fallback window and the cached purifier are each
\* created at most once, and a handle that exists is never replaced.
C17_CreatedOnce ==
    /\ created.windows <= 1
    /\ created.purifiers <= 1

\* the window applyDomPurify works with in the present globals
DomWindowNow ==
    IF globals.window # Undefined /\ globals.window[1].DOMParser
    THEN globals.window
    ELSE fallbackWindow

\* at most one window is ever created, and there are at most as many
\* purifiers as the host changed the globals, plus one
C17_Counts ==
    /\ created.windows <= 1
    /\ created.purifiers <= 1 + created.hostChanges
    /\ fallbackWindow = Undefined <=> created.windows = 0
    /\ cachedPurify = Undefined <=> created.purifiers = 0

\* a step never replaces the fallback window; it replaces the purifier only
\* at the end of a pass that finds globalThis.window, or the lack of one,
\* different from the window the purifier was made for, and then the new one
\* is made for the window in use; with unchanged globals every pass and call
\* finds the handles it left
C17_Reuse ==
    /\ fallbackWindow # Undefined => fallbackWindow' = fallbackWindow
    /\ (cachedPurify # Undefined /\ cachedPurify' # cachedPurify) =>
          /\ pc = "walk" /\ idx > Len(elements)
          /\ Some(cachedPurify[1].window) # DomWindowNow'
          /\ Some(cachedPurify'[1].window) = DomWindowNow'
    /\ (cachedPurify # Undefined /\ Some(cachedPurify[1].window) = DomWindowNow')
          => cachedPurify' = cachedPurify

\* C17 amended: the fallback window is created at most once and never
\* replaced; the cached purifier is created by the first pass that ends and
\* reused by every later pass and call as long as the window in use
\* (globalThis.window if it has a DOMParser, else the fallback window) is the
\* one it was made for; when the host has changed that window between calls,
\* the next pass makes a new purifier for it.
C17_OncePerWindow == [][C17_Counts /\ C17_Reuse]_vars

\* a call made in a plain Node process created the fallback window and a
\* purifier for it; the host then installed a global window, and a later call
\* has made a second purifier, for that window, and no second fallback window
C17_Witness ==
    /\ pc = "done"
    /\ created.windows = 1 /\ created.purifiers = 2 /\ created.hostChanges = 1
    /\ globals.window # Undefined
    /\ cachedPurify # Undefined /\ fallbackWindow # Undefined
    /\ Some(cachedPurify[1].window) = globals.window
    /\ cachedPurify[1].window # fallbackWindow[1]

===========================================================================
